---------------------------- MODULE Spec2Model ----------------------------
(*************************************************************************)
(* personalize-commons: the ReQL filter compiler                         *)
(* (src/personalize_commons/utils/reql_filter_compiler.py).              *)
(*                                                                       *)
(* A text is a sequence of one-character strings, so that quoting and    *)
(* escaping act on characters.  A JSON value (the DSL and everything in  *)
(* it) is a tagged record:                                               *)
(*    [t |-> "null"]                       None                          *)
(*    [t |-> "bool",  b |-> BOOLEAN]       True / False                  *)
(*    [t |-> "int",   n |-> Int]           int                           *)
(*    [t |-> "float", whole, tenths]       the float whole.tenths        *)
(*    [t |-> "str",   s |-> text]          str                           *)
(*    [t |-> "list",  items |-> Seq]       list                          *)
(*    [t |-> "dict",  m |-> record]        dict, keys are the fields     *)
(* An outcome is what a call gives back: a text, or the error raised.    *)
(*************************************************************************)
EXTENDS Integers, Sequences, FiniteSets, TLC

VARIABLES
    schema,             \* self.schema of the compiler instance
    pc,                 \* "call": the call is about to run; "done": it returned or raised
    call,               \* the method called: "compile", "extract_fields", ...
    dsl,                \* the dsl argument of compile and extract_fields
    allow,              \* allow_context_item of compile
    fields,             \* the extracted_fields argument of validate_extracted_fields
    result,             \* the outcome of compile
    extracted,          \* the outcome of the last extract_fields
    validated,          \* the outcome of validate_extracted_fields
    ncalls,             \* the calls made on the instance so far
    memo,               \* history: one compile call of the session and its outcome
    conditions,         \* the conditions argument of query_users, in the order of its items
    tenant_id,          \* the tenant_id argument of query_users
    executed,           \* what query_users passed to execute_partiql, or the error it raised
    dynamodb,           \* the tables behind the repositories
    procs               \* the repository and service calls in flight, one record each

storeVars == <<conditions, tenant_id, executed, dynamodb, procs>>

vars == <<schema, pc, call, dsl, allow, fields, result, extracted, validated,
          ncalls, memo, conditions, tenant_id, executed, dynamodb, procs>>

\* query_users has not returned
NoExecuted == [ok |-> FALSE, err |-> "pending"]

\* no repository call is made
StoreIdle ==
    /\ conditions = <<>>
    /\ tenant_id = <<>>
    /\ executed = NoExecuted
    /\ dynamodb = <<>>
    /\ procs = <<>>

-----------------------------------------------------------------------------
(* JSON values *)

JNull == [t |-> "null"]
JBool(b) == [t |-> "bool", b |-> b]
JInt(n) == [t |-> "int", n |-> n]
JFloat(w, f) == [t |-> "float", whole |-> w, tenths |-> f]
JStr(s) == [t |-> "str", s |-> s]
JList(items) == [t |-> "list", items |-> items]
JDict(m) == [t |-> "dict", m |-> m]

EmptyMap == [k \in {} |-> JNull]

\* isinstance(v, dict) and key in v
HasKey(v, key) == v.t = "dict" /\ key \in DOMAIN v.m

\* dict.get(key): None when the key is absent
DictGet(v, key) == IF key \in DOMAIN v.m THEN v.m[key] ELSE JNull

-----------------------------------------------------------------------------
(* Texts written by the compiler *)

T_true == <<"t", "r", "u", "e">>
T_false == <<"f", "a", "l", "s", "e">>
T_null == <<"n", "u", "l", "l">>
T_now == <<"n", "o", "w", "(", ")">>
T_True == <<"T", "r", "u", "e">>
T_False == <<"F", "a", "l", "s", "e">>
T_None == <<"N", "o", "n", "e">>
T_AND == <<"A", "N", "D">>
T_OR == <<"O", "R">>
T_in == <<"i", "n">>
T_not_in == <<"n", "o", "t", " ", "i", "n">>
T_contains == <<"c", "o", "n", "t", "a", "i", "n", "s">>
T_startsWith == <<"s", "t", "a", "r", "t", "s", "W", "i", "t", "h">>
T_not == <<"n", "o", "t">>
\* the names of the datatypes
D_string == <<"s", "t", "r", "i", "n", "g">>
D_int == <<"i", "n", "t">>
D_float == <<"f", "l", "o", "a", "t">>
D_datetime == <<"d", "a", "t", "e", "t", "i", "m", "e">>
D_boolean == <<"b", "o", "o", "l", "e", "a", "n">>
T_context_item == <<"c", "o", "n", "t", "e", "x", "t", "_", "i", "t", "e", "m">>
\* the prefix '$context_item.' of the string form of a context reference
T_ctx_prefix == <<"$">> \o T_context_item \o <<".">>

-----------------------------------------------------------------------------
(* Python's str methods, on texts *)

UpperLetters == <<"A", "B", "C", "D", "E", "F", "G", "H", "I", "J", "K", "L", "M",
                  "N", "O", "P", "Q", "R", "S", "T", "U", "V", "W", "X", "Y", "Z">>
LowerLetters == <<"a", "b", "c", "d", "e", "f", "g", "h", "i", "j", "k", "l", "m",
                  "n", "o", "p", "q", "r", "s", "t", "u", "v", "w", "x", "y", "z">>
Whitespace == {" ", "\t", "\n", "\r", "\f"}
Digits == <<"0", "1", "2", "3", "4", "5", "6", "7", "8", "9">>

IsDigit(c) == \E i \in DOMAIN Digits : Digits[i] = c
DigitValue(c) == (CHOOSE i \in DOMAIN Digits : Digits[i] = c) - 1

LowerChar(c) ==
    IF \E i \in DOMAIN UpperLetters : UpperLetters[i] = c
    THEN LowerLetters[CHOOSE i \in DOMAIN UpperLetters : UpperLetters[i] = c]
    ELSE c

\* s.lower()
Lower(s) == [i \in DOMAIN s |-> LowerChar(s[i])]

\* s.lstrip(), s.rstrip(), s.strip()
RECURSIVE LStrip(_)
LStrip(s) == IF s # <<>> /\ Head(s) \in Whitespace THEN LStrip(Tail(s)) ELSE s
RECURSIVE RStrip(_)
RStrip(s) ==
    IF s # <<>> /\ s[Len(s)] \in Whitespace THEN RStrip(SubSeq(s, 1, Len(s) - 1)) ELSE s
Strip(s) == RStrip(LStrip(s))

\* s.startswith(prefix)
StartsWith(s, prefix) ==
    Len(s) >= Len(prefix) /\ SubSeq(s, 1, Len(prefix)) = prefix

\* c in s
Contains(s, c) == \E i \in DOMAIN s : s[i] = c

\* s.partition(c): what precedes the first character of cs, and what follows it
RECURSIVE Before(_, _)
Before(s, cs) ==
    IF s = <<>> \/ Head(s) \in cs THEN <<>> ELSE <<Head(s)>> \o Before(Tail(s), cs)
RECURSIVE After(_, _)
After(s, cs) ==
    IF s = <<>> THEN <<>> ELSE IF Head(s) \in cs THEN Tail(s) ELSE After(Tail(s), cs)

\* s.partition('.')[2]
AfterFirstDot(s) == After(s, {"."})

\* s.replace(c, by) for a one-character c
RECURSIVE ReplaceChar(_, _, _)
ReplaceChar(s, c, by) ==
    IF s = <<>> THEN <<>>
    ELSE (IF Head(s) = c THEN by ELSE <<Head(s)>>) \o ReplaceChar(Tail(s), c, by)

\* sep.join(parts)
RECURSIVE Join(_, _)
Join(sep, parts) ==
    IF parts = <<>> THEN <<>>
    ELSE IF Len(parts) = 1 THEN parts[1]
    ELSE parts[1] \o sep \o Join(sep, Tail(parts))

\* the sequences of a sequence, one after the other
RECURSIVE Flatten(_)
Flatten(seqs) == IF seqs = <<>> THEN <<>> ELSE Head(seqs) \o Flatten(Tail(seqs))

-----------------------------------------------------------------------------
(* Python's int(), float(), str() and repr(), on the values of the model *)

RECURSIVE NatToText(_)
NatToText(n) ==
    IF n < 10 THEN <<Digits[n + 1]>>
    ELSE NatToText(n \div 10) \o <<Digits[(n % 10) + 1]>>

\* str(n) for an int
IntToText(n) == IF n < 0 THEN <<"-">> \o NatToText(0 - n) ELSE NatToText(n)

\* digit (["_"] digit)*: the digit part of a Python numeric literal
IsDigitPart(s) ==
    /\ s # <<>>
    /\ IsDigit(s[1]) /\ IsDigit(s[Len(s)])
    /\ \A i \in DOMAIN s : IsDigit(s[i]) \/ s[i] = "_"
    /\ \A i \in 1..(Len(s) - 1) : ~(s[i] = "_" /\ s[i + 1] = "_")

DropSign(s) == IF s # <<>> /\ s[1] \in {"+", "-"} THEN Tail(s) ELSE s

\* int(s) succeeds for the str s
IsPyIntText(s) == IsDigitPart(DropSign(Strip(s)))

RECURSIVE DigitsValue(_, _)
DigitsValue(s, acc) ==
    IF s = <<>> THEN acc
    ELSE IF Head(s) = "_" THEN DigitsValue(Tail(s), acc)
    ELSE DigitsValue(Tail(s), 10 * acc + DigitValue(Head(s)))

\* the value of [sign] digitpart
SignedValue(t) ==
    IF Head(t) = "-" THEN 0 - DigitsValue(Tail(t), 0) ELSE DigitsValue(DropSign(t), 0)

\* int(s) for a str s that int() accepts
PyIntValue(s) == SignedValue(Strip(s))

\* [digitpart] "." [digitpart], not both empty
IsPointFloat(ip, fp) ==
    /\ ip = <<>> \/ IsDigitPart(ip)
    /\ fp = <<>> \/ IsDigitPart(fp)
    /\ ~(ip = <<>> /\ fp = <<>>)

\* the mantissa of a float literal
IsMantissa(mant) ==
    IF Contains(mant, ".") THEN IsPointFloat(Before(mant, {"."}), After(mant, {"."}))
    ELSE IsDigitPart(mant)

\* [sign] mantissa [("e" | "E") [sign] digitpart]
IsFloatLiteral(u) ==
    /\ IsMantissa(Before(u, {"e", "E"}))
    /\ (Contains(u, "e") \/ Contains(u, "E")) => IsDigitPart(DropSign(After(u, {"e", "E"})))

\* float(s) succeeds for the str s (inf and nan, which hold no '.', left out)
IsPyFloatText(s) == IsFloatLiteral(DropSign(Strip(s)))

\* repr(s) for a str of printable characters
PyReprStr(s) ==
    IF Contains(s, "'") /\ ~Contains(s, "\"")
    THEN <<"\"">> \o ReplaceChar(s, "\\", <<"\\", "\\">>) \o <<"\"">>
    ELSE <<"'">> \o ReplaceChar(ReplaceChar(s, "\\", <<"\\", "\\">>), "'", <<"\\", "'">>) \o <<"'">>

\* repr(v); a dict is modelled when it is empty (its keys are not texts)
RECURSIVE PyRepr(_)
PyRepr(v) ==
    CASE v.t = "null" -> T_None
      [] v.t = "bool" -> IF v.b THEN T_True ELSE T_False
      [] v.t = "int" -> IntToText(v.n)
      [] v.t = "float" -> NatToText(v.whole) \o <<".">> \o NatToText(v.tenths)
      [] v.t = "str" -> PyReprStr(v.s)
      [] v.t = "list" ->
            <<"[">> \o Join(<<",", " ">>, [i \in DOMAIN v.items |-> PyRepr(v.items[i])]) \o <<"]">>
      [] v.t = "dict" /\ DOMAIN v.m = {} -> <<"{", "}">>

\* str(v)
PyStr(v) == IF v.t = "str" THEN v.s ELSE PyRepr(v)

-----------------------------------------------------------------------------
(* Outcomes and the errors of the compiler *)

Ok(text) == [ok |-> TRUE, text |-> text, err |-> "none"]
Raise(e) == [ok |-> FALSE, text |-> <<>>, err |-> e]

-----------------------------------------------------------------------------
(* helpers for formatting *)

\* _escape_string_for_reql
EscapeStringForReql(s) ==
    <<"\"">>
    \o ReplaceChar(ReplaceChar(s, "\\", <<"\\", "\\">>), "\"", <<"\\", "\"">>)
    \o <<"\"">>

\* _format_property
FormatProperty(prop) == <<"'">> \o prop \o <<"'">>

\* A context reference written in dotted form, context_item.<name>
ContextAccessorDotted(name) == T_context_item \o <<".">> \o name

\* context_item["<name>"]
ContextAccessor(name) == T_context_item \o <<"[", "\"">> \o name \o <<"\"", "]">>

\* _format_value, lines 168-172: the dict form of a context reference
FormatContextDict(inner) ==
    IF inner.t # "str" THEN Raise("InvalidContextRef") ELSE Ok(ContextAccessor(inner.s))

\* _format_value, lines 178-191: int and float
FormatNumber(raw) ==
    IF raw.t \in {"int", "float", "bool"} THEN Ok(PyStr(raw))
    ELSE IF raw.t # "str" THEN Raise("InvalidNumber")
    ELSE IF Contains(raw.s, ".")
         THEN IF IsPyFloatText(raw.s) THEN Ok(raw.s) ELSE Raise("InvalidNumber")
         ELSE IF IsPyIntText(raw.s) THEN Ok(IntToText(PyIntValue(raw.s)))
              ELSE Raise("InvalidNumber")

\* _format_value, lines 195-198: the boolean given as text
FormatBooleanText(lr) == IF lr \in {T_true, T_false} THEN Ok(lr) ELSE Raise("InvalidBoolean")

\* _format_value, lines 192-198: boolean
FormatBoolean(raw) ==
    IF raw.t = "bool" THEN Ok(IF raw.b THEN T_true ELSE T_false)
    ELSE FormatBooleanText(Lower(Strip(PyStr(raw))))

\* _format_value, lines 199-206: datetime
FormatDatetime(raw) ==
    IF raw.t = "str" /\ Lower(Strip(raw.s)) = T_now THEN Ok(T_now)
    ELSE IF raw.t = "str" THEN Ok(EscapeStringForReql(raw.s))
    ELSE Raise("InvalidDatetime")

\* _format_value
FormatValue(raw, dtype) ==
    IF raw.t = "null" THEN Ok(T_null)
    ELSE IF HasKey(raw, "$context_item") THEN FormatContextDict(raw.m["$context_item"])
    ELSE IF raw.t = "str" /\ StartsWith(raw.s, T_ctx_prefix)
    THEN Ok(ContextAccessor(AfterFirstDot(raw.s)))
    ELSE IF dtype \in {D_int, D_float} THEN FormatNumber(raw)
    ELSE IF dtype = D_boolean THEN FormatBoolean(raw)
    ELSE IF dtype = D_datetime THEN FormatDatetime(raw)
    ELSE Ok(EscapeStringForReql(PyStr(raw)))

RECURSIVE FormatParts(_, _, _, _)

\* _format_multi_values, line 222: the value at i is formatted (one) and appended
AppendPart(values, dtype, i, parts, one) ==
    IF ~one.ok THEN one ELSE FormatParts(values, dtype, i + 1, Append(parts, one.text))

\* _format_multi_values, lines 219-224: the loop over the values, from i on
FormatParts(values, dtype, i, parts) ==
    IF i > Len(values) THEN Ok(<<"{">> \o Join(<<",", " ">>, parts) \o <<"}">>)
    ELSE AppendPart(values, dtype, i, parts, FormatValue(values[i], dtype))

\* _format_multi_values
FormatMultiValues(values, dtype) ==
    IF values.t # "list" THEN Raise("MultiValueRequiresList")
    ELSE FormatParts(values.items, dtype, 1, <<>>)

-----------------------------------------------------------------------------
(* validation *)

O_eq == <<"=", "=">>
O_ne == <<"!", "=">>
O_lt == <<"<">>
O_le == <<"<", "=">>
O_gt == <<">">>
O_ge == <<">", "=">>

\* OPERATORS_BY_TYPE.get(dtype, set())
OperatorsByType(dtype) ==
    CASE dtype = D_string -> {O_eq, O_ne, T_in, T_not_in, T_contains, T_startsWith}
      [] dtype = D_int -> {O_eq, O_ne, O_lt, O_le, O_gt, O_ge, T_in, T_not_in}
      [] dtype = D_float -> {O_eq, O_ne, O_lt, O_le, O_gt, O_ge, T_in, T_not_in}
      [] dtype = D_datetime -> {O_lt, O_le, O_gt, O_ge, O_eq, O_ne}
      [] dtype = D_boolean -> {O_eq, O_ne}
      [] OTHER -> {}

\* prop in self.schema (the keys of the schema are texts)
InSchema(sch, prop) == prop.t = "str" /\ prop.s \in DOMAIN sch

\* op in ('in', 'not in'), op in ('contains', 'startsWith'), op in allowed
OpIs(op, tokens) == op.t = "str" /\ op.s \in tokens

-----------------------------------------------------------------------------
(* compilation: rule & groups *)

\* A membership that writes not in as a token of its own
EmitMembershipNegatedToken(prop, op, multi) ==
    IF ~multi.ok THEN multi
    ELSE Ok(FormatProperty(prop.s) \o <<" ">> \o op.s \o <<" ">> \o multi.text)

\* compile_rule, lines 275-279: the membership test, negated for not in
EmitMembership(prop, op, multi) ==
    IF ~multi.ok THEN multi
    ELSE IF op.s = T_in
         THEN Ok(FormatProperty(prop.s) \o <<" ">> \o T_in \o <<" ">> \o multi.text)
         ELSE Ok(T_not \o <<" ", "(">> \o FormatProperty(prop.s) \o <<" ">> \o T_in
                 \o <<" ">> \o multi.text \o <<")">>)

\* compile_rule, lines 270-279: in / not in
CompileMembership(prop, op, val, dtype) ==
    IF val.t # "list" THEN Raise("RequiresList")
    ELSE EmitMembership(prop, op, FormatMultiValues(val, dtype))

\* compile_rule, lines 289-292: the function call
EmitStringFunction(prop, op, lit) ==
    IF ~lit.ok THEN lit
    ELSE IF op.s = T_contains
         THEN Ok(T_contains \o <<"(">> \o FormatProperty(prop.s) \o <<",", " ">> \o lit.text \o <<")">>)
         ELSE Ok(T_startsWith \o <<"(">> \o FormatProperty(prop.s) \o <<",", " ">> \o lit.text \o <<")">>)

\* compile_rule, lines 281-292: contains / startsWith
CompileStringFunction(prop, op, val, dtype) ==
    IF dtype # D_string THEN Raise("OnlyValidForString")
    ELSE IF val.t = "list" THEN Raise("ExpectsSingleValue")
    ELSE EmitStringFunction(prop, op, FormatValue(val, D_string))

\* compile_rule, line 301
EmitBinary(prop, op, right) ==
    IF ~right.ok THEN right
    ELSE Ok(FormatProperty(prop.s) \o <<" ">> \o op.s \o <<" ">> \o right.text)

\* compile_rule, lines 297-301: the binary operators
CompileBinary(prop, op, val, dtype) ==
    IF val.t = "list" THEN Raise("DoesNotAcceptList")
    ELSE EmitBinary(prop, op, FormatValue(val, dtype))

\* compile_rule, lines 261-263: the type of the property and the operator check
OperatorAllowed(sch, prop, op) == OpIs(op, OperatorsByType(sch[prop.s]))

\* compile_rule, lines 258-301: the property, operator and value of the rule
CompileCondition(sch, prop, op, val) ==
    IF ~InSchema(sch, prop) THEN Raise("UnknownProperty")
    ELSE IF ~OperatorAllowed(sch, prop, op) THEN Raise("OperatorNotAllowed")
    ELSE IF OpIs(op, {T_in, T_not_in}) THEN CompileMembership(prop, op, val, sch[prop.s])
    ELSE IF OpIs(op, {T_contains, T_startsWith})
         THEN CompileStringFunction(prop, op, val, sch[prop.s])
    ELSE CompileBinary(prop, op, val, sch[prop.s])

\* the schema with the type of the rule's field replaced by the rule's dtype
SchemaWithOverride(sch, rule) ==
    IF HasKey(rule, "dtype") /\ HasKey(rule, "field")
    THEN [k \in DOMAIN sch \cup {rule.m.field.s} |->
             IF k = rule.m.field.s THEN rule.m.dtype.s ELSE sch[k]]
    ELSE sch

\* A compile_rule that resolves the type from the dtype of the rule first
CompileRuleWithOverride(sch, rule) ==
    IF ~({"field", "operator", "value"} \subseteq DOMAIN rule.m) THEN Raise("RuleMustContain")
    ELSE CompileCondition(SchemaWithOverride(sch, rule), rule.m.field, rule.m.operator,
                          rule.m.value)

\* compile_rule
CompileRule(sch, rule) ==
    IF ~({"field", "operator", "value"} \subseteq DOMAIN rule.m) THEN Raise("RuleMustContain")
    ELSE CompileCondition(sch, rule.m.field, rule.m.operator, rule.m.value)

\* compile_group, line 338: val references the context item
IsContextReference(val) ==
    HasKey(val, "$context_item") \/ (val.t = "str" /\ StartsWith(val.s, T_ctx_prefix))

\* compile_group, lines 337-338: the value of the rule references the context item
UsesContextItem(element) == IsContextReference(DictGet(element, "value"))

\* A compile_group without the context-permission check
CompileSingleRuleUnchecked(sch, element, allow_context_item) == CompileRule(sch, element)

\* compile_group, lines 335-341: a single rule
CompileSingleRule(sch, element, allow_context_item) ==
    IF UsesContextItem(element) /\ ~allow_context_item THEN Raise("ContextNotAllowed")
    ELSE CompileRule(sch, element)

\* compile_group, line 328: the element is a nested group
IsNestedGroup(element) == HasKey(element, "rules")

\* A compile_group that forgets the parentheses of a nested group
WrapPartBare(part) == part

\* compile_group, line 331
WrapPart(part) == <<"(">> \o part \o <<")">>

\* compile_group, line 345
Joiner(op_raw) == IF op_raw = JStr(T_AND) THEN <<" ">> \o T_AND \o <<" ">> ELSE <<" ">> \o T_OR \o <<" ">>

\* A compile_group without the permissive default: no parts join to the empty text
JoinPartsNoDefault(op_raw, compiled_parts) == Join(Joiner(op_raw), compiled_parts)

\* compile_group, lines 346-348
JoinParts(op_raw, compiled_parts) ==
    IF compiled_parts = <<>> THEN T_true ELSE Join(Joiner(op_raw), compiled_parts)

\* What compile_group gives back, with the elements its walk reached, in order
Walked(outcome, walk) ==
    [ok |-> outcome.ok, text |-> outcome.text, err |-> outcome.err, walk |-> walk]

\* the loop of compile_group stopped by an error, or at its end
Stopped(err, walk) == [ok |-> FALSE, parts |-> <<>>, err |-> err, walk |-> walk]
Looped(compiled_parts, walk) == [ok |-> TRUE, parts |-> compiled_parts, err |-> "none", walk |-> walk]

RECURSIVE CompileGroup(_, _, _)
RECURSIVE CompileElements(_, _, _, _, _, _)

\* compile_group, lines 330-331: the nested group at i compiled to part
AppendGroup(sch, rules, allow_context_item, i, compiled_parts, walk, part) ==
    IF ~part.ok THEN Stopped(part.err, walk \o part.walk)
    ELSE CompileElements(sch, rules, allow_context_item, i + 1,
                         Append(compiled_parts, WrapPart(part.text)), walk \o part.walk)

\* A compile_group that skips a failing rule and goes on with the next element
AppendRuleSkipping(sch, rules, allow_context_item, i, compiled_parts, walk, part) ==
    CompileElements(sch, rules, allow_context_item, i + 1,
                    IF part.ok THEN Append(compiled_parts, part.text) ELSE compiled_parts,
                    Append(walk, rules[i]))

\* compile_group, line 341: the single rule at i compiled to part
AppendRule(sch, rules, allow_context_item, i, compiled_parts, walk, part) ==
    IF ~part.ok THEN Stopped(part.err, Append(walk, rules[i]))
    ELSE CompileElements(sch, rules, allow_context_item, i + 1,
                         Append(compiled_parts, part.text), Append(walk, rules[i]))

\* compile_group, lines 326-343: the loop over the rules, from element i on
CompileElements(sch, rules, allow_context_item, i, compiled_parts, walk) ==
    IF i > Len(rules) THEN Looped(compiled_parts, walk)
    ELSE IF IsNestedGroup(rules[i])
         THEN AppendGroup(sch, rules, allow_context_item, i, compiled_parts, walk,
                          CompileGroup(sch, rules[i], allow_context_item))
    ELSE IF rules[i].t = "dict"
         THEN AppendRule(sch, rules, allow_context_item, i, compiled_parts, walk,
                         CompileSingleRule(sch, rules[i], allow_context_item))
    ELSE Stopped("RuleNotDict", Append(walk, rules[i]))

\* compile_group, lines 345-348: the loop is over
FinishGroup(group, done) ==
    IF ~done.ok THEN Walked(Raise(done.err), done.walk)
    ELSE Walked(Ok(JoinParts(group.m.op, done.parts)), done.walk)

\* compile_group (group is a dict)
CompileGroup(sch, group, allow_context_item) ==
    IF ~({"op", "rules"} \subseteq DOMAIN group.m) THEN Walked(Raise("GroupMustContain"), <<group>>)
    ELSE IF group.m.op \notin {JStr(T_AND), JStr(T_OR)} THEN Walked(Raise("GroupOpInvalid"), <<group>>)
    ELSE IF group.m.rules.t # "list" THEN Walked(Raise("RulesNotList"), <<group>>)
    ELSE FinishGroup(group,
                     CompileElements(sch, group.m.rules.items, allow_context_item, 1, <<>>, <<group>>))

\* compile (dsl is the JSON object, already parsed)
Compile(sch, dsl_obj, allow_context_item) == CompileGroup(sch, dsl_obj, allow_context_item)

-----------------------------------------------------------------------------
(* extract_fields *)

\* not v: None, False, 0, 0.0, '', [] and {} are falsy
Falsy(v) ==
    \/ v.t = "null"
    \/ v.t = "bool" /\ ~v.b
    \/ v.t = "int" /\ v.n = 0
    \/ v.t = "float" /\ v.whole = 0 /\ v.tenths = 0
    \/ v.t = "str" /\ v.s = <<>>
    \/ v.t = "list" /\ v.items = <<>>
    \/ v.t = "dict" /\ DOMAIN v.m = {}

\* a list or a dict cannot be a key: hashing it raises TypeError
Unhashable(v) == v.t \in {"list", "dict"}

\* field_types is a dict in insertion order: a sequence of [field, dtype]
Extracted(field_types) == [ok |-> TRUE, err |-> "none", fields |-> field_types]
ExtractRaise(e) == [ok |-> FALSE, err |-> e, fields |-> <<>>]

\* field_name in field_types (the field names drawn are str)
HasField(field_types, name) == \E i \in DOMAIN field_types : field_types[i].field = name

\* A merge in which the last occurrence wins
InsertOverwriting(field_name, dtype, field_types) ==
    Extracted([i \in DOMAIN field_types |->
                  IF field_types[i].field = field_name.s
                  THEN [field |-> field_name.s, dtype |-> dtype] ELSE field_types[i]]
              \o (IF HasField(field_types, field_name.s) THEN <<>>
                  ELSE <<[field |-> field_name.s, dtype |-> dtype]>>))

\* process_node, lines 431-433: first occurrence wins
InsertIfAbsent(field_name, dtype, field_types) ==
    IF HasField(field_types, field_name.s) THEN Extracted(field_types)
    ELSE Extracted(Append(field_types, [field |-> field_name.s, dtype |-> dtype]))

\* A rule without dtype that is never looked up in the schema
SchemaDtypeSkipped(sch, field_name, field_types) == Extracted(field_types)

\* process_node, lines 427-428: the dtype of the schema, when the rule has none
SchemaDtype(sch, field_name, field_types) ==
    IF Unhashable(field_name) THEN ExtractRaise("TypeError")
    ELSE IF ~InSchema(sch, field_name) \/ sch[field_name.s] = <<>> THEN Extracted(field_types)
    ELSE InsertIfAbsent(field_name, JStr(sch[field_name.s]), field_types)

\* process_node, lines 426-433: the dtype of the rule, or of the schema
ResolveDtype(sch, field_name, dtype, field_types) ==
    IF dtype = JNull THEN SchemaDtype(sch, field_name, field_types)
    ELSE IF Falsy(dtype) THEN Extracted(field_types)
    ELSE IF Unhashable(field_name) THEN ExtractRaise("TypeError")
    ELSE InsertIfAbsent(field_name, dtype, field_types)

\* process_node, lines 421-433: the node is a rule
ProcessRule(sch, node, field_types) ==
    IF Falsy(DictGet(node, "field")) THEN Extracted(field_types)
    ELSE ResolveDtype(sch, DictGet(node, "field"), DictGet(node, "dtype"), field_types)

RECURSIVE ProcessNode(_, _, _)
RECURSIVE ProcessRules(_, _, _, _)

\* process_node, lines 417-420: AttributeError and TypeError of a rule are skipped
AfterRule(sch, rules, i, field_types, out) ==
    IF out.ok THEN ProcessRules(sch, rules, i + 1, out.fields)
    ELSE IF out.err \in {"TypeError", "AttributeError"}
         THEN ProcessRules(sch, rules, i + 1, field_types)
    ELSE out

\* process_node, lines 414-420: the loop over the rules of a group, from i on
ProcessRules(sch, rules, i, field_types) ==
    IF i > Len(rules) THEN Extracted(field_types)
    ELSE IF rules[i].t # "dict" THEN ProcessRules(sch, rules, i + 1, field_types)
    ELSE AfterRule(sch, rules, i, field_types, ProcessNode(sch, rules[i], field_types))

\* process_node, lines 410-412: node.get('rules', [])
RulesOf(node) == IF HasKey(node, "rules") THEN node.m.rules ELSE JList(<<>>)

\* process_node, lines 409-420: the node is a group
ProcessGroup(sch, rules, field_types) ==
    IF rules.t # "list" THEN ExtractRaise("RulesNotList")
    ELSE ProcessRules(sch, rules.items, 1, field_types)

\* process_node
ProcessNode(sch, node, field_types) ==
    IF HasKey(node, "op") THEN ProcessGroup(sch, RulesOf(node), field_types)
    ELSE ProcessRule(sch, node, field_types)

\* extract_fields, lines 439-440: AttributeError and TypeError at the root
AtRoot(out) ==
    IF ~out.ok /\ out.err \in {"TypeError", "AttributeError"} THEN ExtractRaise("InvalidStructure")
    ELSE out

\* extract_fields
ExtractFields(sch, dsl_json) ==
    IF dsl_json.t # "dict" THEN ExtractRaise("DslNotDict")
    ELSE AtRoot(ProcessNode(sch, dsl_json, <<>>))

\* An extract_fields that files the types it resolves in self.schema
SchemaSharedWithExtract(sch, field_types) ==
    [k \in DOMAIN sch \cup {field_types[i].field : i \in DOMAIN field_types} |->
        IF k \in DOMAIN sch THEN sch[k]
        ELSE (CHOOSE item \in {field_types[i] : i \in DOMAIN field_types} : item.field = k).dtype.s]

\* self.schema after extract_fields: the mapping is built in the local
\* field_types (line 406), and no method assigns or mutates self.schema
SchemaAfterExtract(sch, field_types) == sch

-----------------------------------------------------------------------------
(* validate_extracted_fields *)

D_text == <<"t", "e", "x", "t">>
D_varchar == <<"v", "a", "r", "c", "h", "a", "r">>
D_char == <<"c", "h", "a", "r">>
D_integer == <<"i", "n", "t", "e", "g", "e", "r">>
D_bigint == <<"b", "i", "g", "i", "n", "t">>
D_smallint == <<"s", "m", "a", "l", "l", "i", "n", "t">>
D_double == <<"d", "o", "u", "b", "l", "e">>
D_decimal == <<"d", "e", "c", "i", "m", "a", "l">>
D_numeric == <<"n", "u", "m", "e", "r", "i", "c">>
D_bool == <<"b", "o", "o", "l">>
D_timestamp == <<"t", "i", "m", "e", "s", "t", "a", "m", "p">>
D_date == <<"d", "a", "t", "e">>

\* _types_compatible, lines 504-510: the compatibility matrix
Compatibility(filter_type) ==
    CASE filter_type = D_string -> {D_text, D_varchar, D_char, D_string}
      [] filter_type = D_int -> {D_integer, D_int, D_bigint, D_smallint}
      [] filter_type = D_float -> {D_float, D_double, D_decimal, D_numeric}
      [] filter_type = D_boolean -> {D_bool, D_boolean}
      [] filter_type = D_datetime -> {D_timestamp, D_datetime, D_date}
      [] OTHER -> {}

\* _types_compatible, lines 517-520, on the lowered names
CompatibleLowered(filter_type, db_type) ==
    filter_type = db_type \/ db_type \in Compatibility(filter_type)

\* _types_compatible
TypesCompatible(filter_type, db_type) == CompatibleLowered(Lower(filter_type), Lower(db_type))

\* the printable characters in the order of their code points (no backquote)
Printable ==
    <<" ", "!", "\"", "#", "$", "%", "&", "'", "(", ")", "*", "+", ",", "-", ".", "/",
     "0", "1", "2", "3", "4", "5", "6", "7", "8", "9", ":", ";", "<", "=", ">", "?",
     "@", "A", "B", "C", "D", "E", "F", "G", "H", "I", "J", "K", "L", "M", "N", "O",
     "P", "Q", "R", "S", "T", "U", "V", "W", "X", "Y", "Z", "[", "\\", "]", "^", "_",
     "a", "b", "c", "d", "e", "f", "g", "h", "i", "j", "k", "l", "m", "n", "o",
     "p", "q", "r", "s", "t", "u", "v", "w", "x", "y", "z", "{", "|", "}", "~">>

\* the rank of a character in that order
CharRank(c) == CHOOSE i \in DOMAIN Printable : Printable[i] = c

\* a < b for str
RECURSIVE TextLess(_, _)
TextLess(a, b) ==
    IF a = <<>> THEN b # <<>>
    ELSE IF b = <<>> THEN FALSE
    ELSE IF Head(a) = Head(b) THEN TextLess(Tail(a), Tail(b))
    ELSE CharRank(Head(a)) < CharRank(Head(b))

\* sorted(texts)
RECURSIVE InsertSorted(_, _)
InsertSorted(x, sorted) ==
    IF sorted = <<>> THEN <<x>>
    ELSE IF TextLess(x, Head(sorted)) THEN <<x>> \o sorted
    ELSE <<Head(sorted)>> \o InsertSorted(x, Tail(sorted))
RECURSIVE Sorted(_)
Sorted(texts) == IF texts = <<>> THEN <<>> ELSE InsertSorted(Head(texts), Sorted(Tail(texts)))

T_missing_fields == <<"M", "i", "s", "s", "i", "n", "g", " ", "f", "i", "e", "l", "d", "s", " ", "i", "n", " ", "s", "c", "h", "e", "m", "a", ":", " ">>
T_type_mismatches == <<"T", "y", "p", "e", " ", "m", "i", "s", "m", "a", "t", "c", "h", "e", "s", ":", " ">>
T_filter == <<" ", "(", "f", "i", "l", "t", "e", "r", ":">>
T_vs_schema == <<" ", "v", "s", " ", "s", "c", "h", "e", "m", "a", ":">>

\* validate_extracted_fields, lines 479-482: one mismatch in the message
MismatchMsg(mismatch) ==
    mismatch.field \o T_filter \o mismatch.filter \o T_vs_schema \o mismatch.schema \o <<")">>

\* validate_extracted_fields, lines 476-484: the parts of the message
Errors(missing_fields, type_mismatches) ==
    (IF missing_fields = <<>> THEN <<>>
     ELSE <<T_missing_fields \o Join(<<",", " ">>, Sorted(missing_fields))>>)
    \o (IF type_mismatches = <<>> THEN <<>>
        ELSE <<T_type_mismatches
               \o Join(<<",", " ">>, [i \in DOMAIN type_mismatches |-> MismatchMsg(type_mismatches[i])])>>)

Validated == [ok |-> TRUE, err |-> "none", text |-> <<>>]
ValidateRaise(e, message) == [ok |-> FALSE, err |-> e, text |-> message]

\* validate_extracted_fields, lines 486-487
RaiseIfErrors(errors) ==
    IF errors = <<>> THEN Validated
    ELSE ValidateRaise("SchemaMismatch", Join(<<";", " ">>, errors))

\* validate_extracted_fields, lines 463-473: the loop over the items, from i on;
\* lower() of a type that is not a str raises AttributeError
RECURSIVE ValidateItems(_, _, _, _, _)
ValidateItems(sch, items, i, missing_fields, type_mismatches) ==
    IF i > Len(items) THEN RaiseIfErrors(Errors(missing_fields, type_mismatches))
    ELSE IF items[i].field \notin DOMAIN sch
         THEN ValidateItems(sch, items, i + 1, Append(missing_fields, items[i].field),
                            type_mismatches)
    ELSE IF items[i].dtype.t # "str" THEN ValidateRaise("AttributeError", <<>>)
    ELSE IF ~TypesCompatible(items[i].dtype.s, sch[items[i].field])
         THEN ValidateItems(sch, items, i + 1, missing_fields,
                            Append(type_mismatches,
                                   [field |-> items[i].field, filter |-> items[i].dtype.s,
                                    schema |-> sch[items[i].field]]))
    ELSE ValidateItems(sch, items, i + 1, missing_fields, type_mismatches)

\* validate_extracted_fields
ValidateExtractedFields(sch, extracted_fields) ==
    ValidateItems(sch, extracted_fields, 1, <<>>, <<>>)

-----------------------------------------------------------------------------
(* The inputs of the calls: schemas, conditions and rule trees *)

F_category == <<"c", "a", "t", "e", "g", "o", "r", "y">>
F_brand == <<"b", "r", "a", "n", "d">>
F_price == <<"p", "r", "i", "c", "e">>
F_itemId == <<"i", "t", "e", "m", "I", "d">>
F_published_at == <<"p", "u", "b", "l", "i", "s", "h", "e", "d", "_", "a", "t">>
F_is_available == <<"i", "s", "_", "a", "v", "a", "i", "l", "a", "b", "l", "e">>
F_unknown == <<"u", "n", "k", "n", "o", "w", "n">>
T_Books == <<"B", "o", "o", "k", "s">>
T_between == <<"b", "e", "t", "w", "e", "e", "n">>

\* the schema of the tests' fixture, one property per datatype
FullSchema ==
    (F_category :> D_string) @@ (F_price :> D_float) @@ (F_itemId :> D_int)
    @@ (F_published_at :> D_datetime) @@ (F_is_available :> D_boolean)

\* another tenant's schema: fewer properties, other datatypes
OtherSchema == (F_category :> D_int) @@ (F_brand :> D_string)

EmptySchema == [k \in {} |-> D_string]

Schemas == {FullSchema, OtherSchema, EmptySchema}

KnownOperators == {O_eq, O_ne, O_lt, O_le, O_gt, O_ge, T_in, T_not_in, T_contains, T_startsWith}
OperatorTokens == KnownOperators \cup {T_between}

FieldNames == {F_category, F_price, F_itemId, F_published_at, F_is_available, F_unknown}

ContextDict(name) == JDict("$context_item" :> name)
ContextString(name) == JStr(T_ctx_prefix \o name)

ScalarValues ==
    { JNull, JBool(TRUE), JInt(42), JFloat(4, 5), JStr(T_Books),
      JStr(<<"a", "\"", "b", "\\">>), JStr(<<"N", "o", "w", "(", ")", " ">>),
      JStr(<<" ", "1", "2">>), JStr(<<"1", ".", "5">>), JStr(T_True),
      JDict(EmptyMap) }

ContextValues == { ContextDict(JStr(F_brand)), ContextString(F_brand), ContextDict(JInt(7)) }

ListValues ==
    { JList(<<>>), JList(<<JStr(<<"A">>), JStr(<<"B">>)>>), JList(<<JInt(42), JInt(77)>>),
      JList(<<ContextDict(JStr(F_brand))>>), JList(<<JStr(<<"1">>), JNull>>),
      JList(<<JStr(<<"B">>), JStr(<<"A">>), JStr(<<"B">>)>>) }

Values == ScalarValues \cup ContextValues \cup ListValues

\* a condition, without and with the optional dtype override
Condition(field, operator, value) ==
    JDict([field |-> JStr(field), operator |-> JStr(operator), value |-> value])
TypedCondition(field, operator, value, dtype) ==
    JDict([field |-> JStr(field), operator |-> JStr(operator), value |-> value,
           dtype |-> JStr(dtype)])

Group(op, children) == JDict([op |-> JStr(op), rules |-> JList(children)])


\* Every condition over the field names, operator tokens and values
Conditions ==
    {Condition(f, o, v) : f \in FieldNames, o \in OperatorTokens, v \in Values}
    \cup {TypedCondition(f, o, v, d) : f \in FieldNames, o \in OperatorTokens, v \in Values,
                                       d \in {D_string, D_int}}

\* node wrapped in depth nested groups, alternating OR and AND
RECURSIVE Wrapped(_, _)
Wrapped(node, depth) ==
    IF depth = 0 THEN node
    ELSE Group(IF depth % 2 = 1 THEN T_OR ELSE T_AND, <<Wrapped(node, depth - 1)>>)

\* The rule trees of one condition: the root group holds the condition, wrapped
MaxWrap == 1
RuleTrees == {Group(T_AND, <<Wrapped(c, d)>>) : c \in Conditions, d \in 0..MaxWrap}

\* The elements a rules list is built from in the trees of several nodes
L_books == Condition(F_category, O_eq, JStr(T_Books))
L_not_in == Condition(F_price, T_not_in, JList(<<JInt(42), JInt(77)>>))
L_unknown == Condition(F_unknown, T_contains, JStr(T_Books))
L_context == Condition(F_category, O_eq, ContextDict(JStr(F_brand)))
L_context_string == Condition(F_category, O_ne, ContextString(F_brand))
L_unknown_context == Condition(F_unknown, O_eq, ContextDict(JStr(F_brand)))
L_xor == Group(<<"X", "O", "R">>, <<>>)

Leaves == {L_books, L_not_in, L_unknown, L_context_string, L_unknown_context, L_xor}

\* The nodes of exactly n nodes, and the rules lists of exactly n nodes
MaxNodes == 3
RECURSIVE NodesExact(_)
RECURSIVE ForestsExact(_)
NodesExact(n) ==
    IF n = 1 THEN Leaves \cup {Group(op, <<>>) : op \in {T_AND, T_OR}}
    ELSE {Group(op, f) : op \in {T_AND, T_OR}, f \in ForestsExact(n - 1)}
ForestsExact(n) ==
    IF n = 0 THEN {<<>>}
    ELSE UNION {{<<t>> \o f : t \in NodesExact(k), f \in ForestsExact(n - k)} : k \in 1..n}

Trees == {Group(op, f) : op \in {T_AND, T_OR}, f \in UNION {ForestsExact(n) : n \in 0..MaxNodes}}

-----------------------------------------------------------------------------
(* The calls *)

NoResult == [ok |-> FALSE, text |-> <<>>, err |-> "pending", walk |-> <<>>]
NoExtracted == [ok |-> FALSE, err |-> "pending", fields |-> <<>>]
NoValidated == [ok |-> FALSE, err |-> "pending", text |-> <<>>]
NoMemo ==
    [armed |-> FALSE, set |-> FALSE, at |-> 0, dsl |-> JNull, allow |-> FALSE,
     result |-> NoResult]

\* A compiler is constructed over a schema and one compile call is about to be made
InitCall(trees) ==
    /\ schema \in Schemas
    /\ pc = "call"
    /\ call = "compile"
    /\ dsl \in trees
    /\ allow \in BOOLEAN
    /\ fields = <<>>
    /\ result = NoResult
    /\ extracted = NoExtracted
    /\ validated = NoValidated
    /\ ncalls = 1
    /\ memo = NoMemo
    /\ StoreIdle

\* the history keeps this compile call if it was armed for it
Remember(outcome) ==
    IF memo.armed
    THEN [armed |-> FALSE, set |-> TRUE, at |-> ncalls, dsl |-> dsl, allow |-> allow,
          result |-> outcome]
    ELSE memo

\* compiler.compile(dsl, allow_context_item=allow)
DoCompile ==
    /\ pc = "call" /\ call = "compile"
    /\ result' = Compile(schema, dsl, allow)
    /\ memo' = Remember(Compile(schema, dsl, allow))
    /\ pc' = "done"
    /\ UNCHANGED <<schema, call, dsl, allow, fields, extracted, validated, ncalls>>
    /\ UNCHANGED storeVars

\* compiler.extract_fields(dsl)
DoExtractFields ==
    /\ pc = "call" /\ call = "extract_fields"
    /\ extracted' = ExtractFields(schema, dsl)
    /\ schema' = SchemaAfterExtract(schema, ExtractFields(schema, dsl).fields)
    /\ pc' = "done"
    /\ UNCHANGED <<call, dsl, allow, fields, result, validated, ncalls, memo>>
    /\ UNCHANGED storeVars

\* compiler.validate_extracted_fields(fields)
DoValidateExtractedFields ==
    /\ pc = "call" /\ call = "validate_extracted_fields"
    /\ validated' = ValidateExtractedFields(schema, fields)
    /\ pc' = "done"
    /\ UNCHANGED <<schema, call, dsl, allow, fields, result, extracted, ncalls, memo>>
    /\ UNCHANGED storeVars

Init == InitCall(Trees)
Next == DoCompile
Spec == Init /\ [][Next]_vars

InitRule == InitCall(RuleTrees)
SpecRule == InitRule /\ [][Next]_vars

-----------------------------------------------------------------------------
(* A session: several calls on one compiler instance *)

MaxCalls == 3

L_typed_unknown == TypedCondition(F_unknown, O_eq, JStr(T_Books), D_string)
L_typed_price == TypedCondition(F_price, O_eq, JInt(42), D_string)

\* the trees the caller of a session passes
SessionTrees ==
    { Group(T_AND, <<L_books>>),
      Group(T_AND, <<L_typed_unknown>>),
      Group(T_OR, <<L_context, L_not_in>>),
      Group(T_AND, <<L_typed_price, Group(T_OR, <<L_books>>)>>),
      JDict([op |-> JStr(T_AND), rules |-> JStr(T_Books)]),
      Group(T_OR, <<>>) }

\* the mappings the caller passes besides the one extract_fields returned
SessionFieldMaps ==
    { <<>>,
      <<[field |-> F_category, dtype |-> JStr(D_text)],
        [field |-> F_unknown, dtype |-> JStr(D_int)]>> }

\* The compiler has been constructed and no call has been made
InitSession ==
    /\ schema \in Schemas
    /\ pc = "done"
    /\ call = "none"
    /\ dsl = JNull
    /\ allow = FALSE
    /\ fields = <<>>
    /\ result = NoResult
    /\ extracted = NoExtracted
    /\ validated = NoValidated
    /\ ncalls = 0
    /\ memo = NoMemo
    /\ StoreIdle

\* the caller turns to the next call of the session
NextCall(method) ==
    /\ pc = "done" /\ ncalls < MaxCalls
    /\ pc' = "call"
    /\ call' = method
    /\ ncalls' = ncalls + 1
    /\ result' = NoResult
    /\ validated' = NoValidated
    /\ UNCHANGED <<schema, extracted>>
    /\ UNCHANGED storeVars

\* the history is armed for one compile call of the session, any of them
Arm(keep) == IF keep /\ ~memo.set THEN [memo EXCEPT !.armed = TRUE] ELSE memo

CallCompile ==
    /\ NextCall("compile")
    /\ \E keep \in BOOLEAN : memo' = Arm(keep)
    /\ dsl' \in SessionTrees
    /\ allow' \in BOOLEAN
    /\ fields' = <<>>

CallExtractFields ==
    /\ NextCall("extract_fields")
    /\ dsl' \in SessionTrees
    /\ allow' = FALSE
    /\ fields' = <<>>
    /\ UNCHANGED memo

CallValidateExtractedFields ==
    /\ NextCall("validate_extracted_fields")
    /\ dsl' = JNull
    /\ allow' = FALSE
    /\ fields' \in SessionFieldMaps \cup {extracted.fields}
    /\ UNCHANGED memo

NextSession ==
    \/ CallCompile \/ DoCompile
    \/ CallExtractFields \/ DoExtractFields
    \/ CallValidateExtractedFields \/ DoValidateExtractedFields

SpecSession == InitSession /\ [][NextSession]_vars

-----------------------------------------------------------------------------
(* The constructor *)

\* hasattr(AppConstants, 'SUPPORTED_DATATYPES'): the class defines no such attribute
HasSupportedDatatypes == FALSE

\* SUPPORTED_DATATYPES as the extension guide gives it
SupportedDatatypes == {D_int, D_float, D_string, D_datetime, D_boolean}

\* __init__, lines 141-143: the loop over schema.items(); its first pass looks
\* the attribute up, which raises AttributeError when the class has none
ValidateSchemaTypes(sch) ==
    IF DOMAIN sch = {} THEN Ok(<<>>)
    ELSE IF ~HasSupportedDatatypes THEN Raise("AttributeError")
    ELSE IF \E prop \in DOMAIN sch : sch[prop] \notin SupportedDatatypes
         THEN Raise("UnsupportedDatatype")
    ELSE Ok(<<>>)

\* __init__
Construct(sch) == ValidateSchemaTypes(sch)

D_set == <<"s", "e", "t">>

\* the mappings given to the constructor: up to three properties, each of a
\* supported type or of one of two other type names
ConstructorFields == {F_category, F_price, F_brand}
ConstructorTypes == SupportedDatatypes \cup {D_set, D_text}
ConstructorSchemas ==
    UNION {[props -> ConstructorTypes] : props \in SUBSET ConstructorFields}

\* ReQLFilterCompiler(schema) is about to run; schema holds its argument
InitConstruct ==
    /\ schema \in ConstructorSchemas
    /\ pc = "call"
    /\ call = "__init__"
    /\ dsl = JNull
    /\ allow = FALSE
    /\ fields = <<>>
    /\ result = NoResult
    /\ extracted = NoExtracted
    /\ validated = NoValidated
    /\ ncalls = 0
    /\ memo = NoMemo
    /\ StoreIdle

\* ReQLFilterCompiler(schema): on success self.schema is a copy of the argument
DoConstruct ==
    /\ pc = "call" /\ call = "__init__"
    /\ result' = Walked(Construct(schema), <<>>)
    /\ pc' = "done"
    /\ UNCHANGED <<schema, call, dsl, allow, fields, extracted, validated, ncalls, memo>>
    /\ UNCHANGED storeVars

NextConstruct == DoConstruct
SpecConstruct == InitConstruct /\ [][NextConstruct]_vars

-----------------------------------------------------------------------------
(* Trees with structurally malformed nodes *)

M_lower_op == Group(<<"a", "n", "d">>, <<L_books>>)
M_no_op == JDict([rules |-> JList(<<L_books>>)])
M_no_rules == JDict([op |-> JStr(T_AND)])
M_rules_str == JDict([op |-> JStr(T_AND), rules |-> JStr(T_Books)])
M_rules_dict == JDict([op |-> JStr(T_OR), rules |-> L_books])
M_no_field == JDict([operator |-> JStr(O_eq), value |-> JStr(T_Books)])
M_no_operator == JDict([field |-> JStr(F_category), value |-> JStr(T_Books)])
M_no_value == JDict([field |-> JStr(F_category), operator |-> JStr(O_eq)])
M_no_field_context == JDict([operator |-> JStr(O_eq), value |-> ContextString(F_brand)])
M_empty == JDict(EmptyMap)

\* the malformed elements of a rules list, and two well-formed ones
MalformedGroups == {L_xor, M_lower_op, M_no_op, M_rules_str, M_rules_dict}
MalformedConditions == {M_no_rules, M_no_field, M_no_operator, M_no_value, M_no_field_context, M_empty}
NotMappings == {JStr(T_Books), JNull, JInt(42), JList(<<L_books>>)}
ShapeElements ==
    MalformedGroups \cup MalformedConditions \cup NotMappings \cup {L_books, L_context_string}

\* the rules lists of up to MaxWidth elements, each bare or inside a group
MaxWidth == 2
ShapeNodes == ShapeElements \cup {Group(T_OR, <<e>>) : e \in ShapeElements}
ShapeForests == UNION {[1..n -> ShapeNodes] : n \in 0..MaxWidth}
ShapeTrees ==
    {Group(T_AND, f) : f \in ShapeForests} \cup MalformedGroups \cup MalformedConditions

\* A compiler over the fixture's schema or the empty one, and one compile call
InitShape ==
    /\ schema \in {FullSchema, EmptySchema}
    /\ pc = "call"
    /\ call = "compile"
    /\ dsl \in ShapeTrees
    /\ allow \in BOOLEAN
    /\ fields = <<>>
    /\ result = NoResult
    /\ extracted = NoExtracted
    /\ validated = NoValidated
    /\ ncalls = 1
    /\ memo = NoMemo
    /\ StoreIdle

SpecShape == InitShape /\ [][Next]_vars

-----------------------------------------------------------------------------
(* Conditions over texts with quotes and backslashes *)

\* the texts of up to MaxText characters over a letter, the double quote and the
\* backslash
MaxText == 2
QuoteChars == {"a", "\"", "\\"}
QuoteTexts == UNION {[1..n -> QuoteChars] : n \in 0..MaxText}

\* a text as a string value, as the property of a context reference in both
\* forms, and as the elements of a list
QuoteValues ==
    {JStr(t) : t \in QuoteTexts}
    \cup {ContextDict(JStr(t)) : t \in QuoteTexts}
    \cup {ContextString(t) : t \in QuoteTexts}
    \cup {JList(<<JStr(t), JStr(u)>>) : t, u \in QuoteTexts}

QuoteConditions ==
    {Condition(f, o, v) : f \in {F_category, F_published_at},
                          o \in {O_eq, T_in, T_contains}, v \in QuoteValues}

QuoteTrees == {Group(T_AND, <<c>>) : c \in QuoteConditions}

\* A compiler over the fixture's schema, and one compile call
InitQuote ==
    /\ schema = FullSchema
    /\ pc = "call"
    /\ call = "compile"
    /\ dsl \in QuoteTrees
    /\ allow \in BOOLEAN
    /\ fields = <<>>
    /\ result = NoResult
    /\ extracted = NoExtracted
    /\ validated = NoValidated
    /\ ncalls = 1
    /\ memo = NoMemo
    /\ StoreIdle

SpecQuote == InitQuote /\ [][Next]_vars

-----------------------------------------------------------------------------
(* Trees for extract_fields *)

X_price_int == TypedCondition(F_price, O_lt, JInt(500), D_int)
X_price_between == Condition(F_price, T_between, JList(<<>>))
X_empty_dtype == TypedCondition(F_category, O_eq, JStr(T_Books), <<>>)
X_null_dtype ==
    JDict([field |-> JStr(F_category), operator |-> JStr(O_eq), value |-> JStr(T_Books),
           dtype |-> JNull])
X_list_field == JDict([field |-> JList(<<JStr(F_price)>>), dtype |-> JStr(D_int)])

\* conditions with and without dtype, on fields in and out of the schemas, and
\* the entries extract_fields has to skip
ExtractElements ==
    { L_typed_price, X_price_int, X_price_between, L_books, L_typed_unknown, L_unknown,
      X_empty_dtype, X_null_dtype, X_list_field,
      JStr(T_Books), M_no_field, M_no_op, M_rules_str }

ExtractNodes == ExtractElements \cup {Group(T_OR, <<e>>) : e \in ExtractElements}
ExtractForests == UNION {[1..n -> ExtractNodes] : n \in 0..MaxWidth}
ExtractTrees ==
    {Group(T_AND, f) : f \in ExtractForests}
    \cup {JStr(T_Books), JList(<<>>), JDict(EmptyMap), M_rules_str, M_no_op, L_books}

\* A compiler over one of the schemas, and one extract_fields call
InitExtract ==
    /\ schema \in Schemas
    /\ pc = "call"
    /\ call = "extract_fields"
    /\ dsl \in ExtractTrees
    /\ allow = FALSE
    /\ fields = <<>>
    /\ result = NoResult
    /\ extracted = NoExtracted
    /\ validated = NoValidated
    /\ ncalls = 1
    /\ memo = NoMemo
    /\ StoreIdle

NextExtract == DoExtractFields
SpecExtract == InitExtract /\ [][NextExtract]_vars

-----------------------------------------------------------------------------
(* Mappings for validate_extracted_fields *)

\* the mappings of up to MaxFields fields to type names, in insertion order
MaxFields == 3
ValidateNames == {F_category, F_price, F_brand, F_unknown}
ValidateTypes == {D_string, D_text, D_int, D_float}
ValidateItem == [field : ValidateNames, dtype : {JStr(t) : t \in ValidateTypes}]
FieldMaps ==
    UNION {{m \in [1..n -> ValidateItem] : \A i, j \in 1..n : i # j => m[i].field # m[j].field}
           : n \in 0..MaxFields}

\* A compiler over one of the schemas, and one validate_extracted_fields call
InitValidate ==
    /\ schema \in Schemas
    /\ pc = "call"
    /\ call = "validate_extracted_fields"
    /\ dsl = JNull
    /\ allow = FALSE
    /\ fields \in FieldMaps
    /\ result = NoResult
    /\ extracted = NoExtracted
    /\ validated = NoValidated
    /\ ncalls = 1
    /\ memo = NoMemo
    /\ StoreIdle

NextValidate == DoValidateExtractedFields
SpecValidate == InitValidate /\ [][NextValidate]_vars

-----------------------------------------------------------------------------
(* Pairs of type names for _types_compatible *)

D_uuid == <<"u", "u", "i", "d">>

\* the names of the compatibility matrix and two names outside it
TypeNames ==
    { D_string, D_text, D_varchar, D_char, D_int, D_integer, D_bigint, D_smallint,
      D_float, D_double, D_decimal, D_numeric, D_boolean, D_bool,
      D_datetime, D_timestamp, D_date, D_set, D_uuid }

\* A compiler whose schema declares one field with db_type, and the call
\* _types_compatible(extracted_type, schema_type) of line 471 for that field
InitTypes ==
    /\ schema \in {(F_category :> db_type) : db_type \in TypeNames}
    /\ pc = "call"
    /\ call = "_types_compatible"
    /\ dsl = JNull
    /\ allow = FALSE
    /\ fields \in {<<[field |-> F_category, dtype |-> JStr(filter_type)]>> :
                      filter_type \in TypeNames}
    /\ result = NoResult
    /\ extracted = NoExtracted
    /\ validated = NoValidated
    /\ ncalls = 1
    /\ memo = NoMemo
    /\ StoreIdle

\* self._types_compatible(extracted_type, schema_type): the returned bool
DoTypesCompatible ==
    /\ pc = "call" /\ call = "_types_compatible"
    /\ result' = JBool(TypesCompatible(fields[1].dtype.s, schema[fields[1].field]))
    /\ pc' = "done"
    /\ UNCHANGED <<schema, call, dsl, allow, fields, extracted, validated, ncalls, memo>>
    /\ UNCHANGED storeVars

NextTypes == DoTypesCompatible
SpecTypes == InitTypes /\ [][NextTypes]_vars

-----------------------------------------------------------------------------
(* The pre-flight path: compile, extract_fields and validate_extracted_fields
   on one tree *)

X_op_books ==
    JDict([field |-> JStr(F_category), operator |-> JStr(O_eq), value |-> JStr(T_Books),
           op |-> JStr(T_AND)])
X_price_le == Condition(F_price, O_le, JInt(42))
X_text_category == TypedCondition(F_category, O_eq, JStr(T_Books), D_text)

PreflightElements ==
    { L_books, X_price_le, X_op_books, X_empty_dtype, X_null_dtype, L_typed_price,
      X_text_category, L_unknown, L_context_string }

PreflightNodes == PreflightElements \cup {Group(T_OR, <<e>>) : e \in PreflightElements}
PreflightForests == UNION {[1..n -> PreflightNodes] : n \in 0..MaxWidth}
PreflightTrees == {Group(T_AND, f) : f \in PreflightForests}

\* A compiler over one of the schemas, and the compile call
InitPreflight ==
    /\ schema \in Schemas
    /\ pc = "call"
    /\ call = "compile"
    /\ dsl \in PreflightTrees
    /\ allow \in BOOLEAN
    /\ fields = <<>>
    /\ result = NoResult
    /\ extracted = NoExtracted
    /\ validated = NoValidated
    /\ ncalls = 1
    /\ memo = NoMemo
    /\ StoreIdle

\* the caller, after compile has accepted the tree, calls extract_fields on it
ThenExtractFields ==
    /\ pc = "done" /\ call = "compile" /\ result.ok
    /\ pc' = "call"
    /\ call' = "extract_fields"
    /\ UNCHANGED <<schema, dsl, allow, fields, result, extracted, validated, ncalls, memo>>
    /\ UNCHANGED storeVars

\* the caller passes the mapping extract_fields returned to
\* validate_extracted_fields
ThenValidateExtractedFields ==
    /\ pc = "done" /\ call = "extract_fields" /\ extracted.ok
    /\ pc' = "call"
    /\ call' = "validate_extracted_fields"
    /\ fields' = extracted.fields
    /\ UNCHANGED <<schema, dsl, allow, result, extracted, validated, ncalls, memo>>
    /\ UNCHANGED storeVars

NextPreflight ==
    \/ DoCompile
    \/ ThenExtractFields \/ DoExtractFields
    \/ ThenValidateExtractedFields \/ DoValidateExtractedFields

SpecPreflight == InitPreflight /\ [][NextPreflight]_vars

-----------------------------------------------------------------------------
(* UserRepository: the values of PartiQL parameters *)

T_tenant_id == <<"t", "e", "n", "a", "n", "t", "_", "i", "d">>
T_users == <<"u", "s", "e", "r", "s">>

\* a DynamoDB attribute value, {'N': '3'} or {'S': 't1'} or {'BOOL': True} ...
AttributeValue(k, v) == [k |-> k, v |-> v]

ConvertOk(av) == [ok |-> TRUE, av |-> av, err |-> "none"]
ConvertRaise(e) == [ok |-> FALSE, av |-> AttributeValue("NULL", TRUE), err |-> e]

\* the elements of a non-empty list are all of the type of the first, by
\* isinstance: a bool is an instance of int
AllOfFirstType(items) ==
    \A i \in DOMAIN items :
        \/ items[i].t = items[1].t
        \/ items[1].t = "int" /\ items[i].t = "bool"

\* self._convert_to_dynamodb_type(value)
RECURSIVE ConvertToDynamodbType(_)
ConvertToDynamodbType(value) ==
    CASE value.t = "null" -> AttributeValue("NULL", TRUE)
      [] value.t = "bool" -> AttributeValue("BOOL", value.b)
      [] value.t \in {"int", "float"} -> AttributeValue("N", PyStr(value))
      [] value.t = "str" -> AttributeValue("S", value.s)
      [] value.t = "list" ->
            IF value.items = <<>> THEN AttributeValue("L", <<>>)
            ELSE IF AllOfFirstType(value.items) /\ value.items[1].t = "str"
            THEN AttributeValue("SS", [i \in DOMAIN value.items |-> value.items[i].s])
            ELSE IF AllOfFirstType(value.items) /\ value.items[1].t \in {"int", "float"}
            THEN AttributeValue("NS", [i \in DOMAIN value.items |-> PyStr(value.items[i])])
            ELSE AttributeValue("L",
                    [i \in DOMAIN value.items |-> ConvertToDynamodbType(value.items[i])])
      [] value.t = "dict" ->
            AttributeValue("M", [key \in DOMAIN value.m |-> ConvertToDynamodbType(value.m[key])])

\* the digits after the point without the zeros at their end
RECURSIVE DropTrailingZeros(_)
DropTrailingZeros(s) ==
    IF s # <<>> /\ s[Len(s)] = "0" THEN DropTrailingZeros(SubSeq(s, 1, Len(s) - 1)) ELSE s

FractionText(fp) ==
    IF DropTrailingZeros(ReplaceChar(fp, "_", <<>>)) = <<>> THEN <<"0">>
    ELSE DropTrailingZeros(ReplaceChar(fp, "_", <<>>))

\* str(float(u)) for an unsigned literal without exponent, of few digits
UnsignedFloatText(u) ==
    IF Contains(u, ".")
    THEN NatToText(DigitsValue(Before(u, {"."}), 0)) \o <<".">> \o FractionText(After(u, {"."}))
    ELSE NatToText(DigitsValue(u, 0)) \o <<".", "0">>

\* str(float(s)) for a str s that float() accepts (literals with an exponent
\* are not among the values)
PyFloatText(s) ==
    CASE ~Contains(s, "e") /\ ~Contains(s, "E") ->
        IF Head(Strip(s)) = "-" THEN <<"-">> \o UnsignedFloatText(DropSign(Strip(s)))
        ELSE UnsignedFloatText(DropSign(Strip(s)))

\* str(int(value))
StrInt(value) ==
    CASE value.t = "int" -> ConvertOk(AttributeValue("N", IntToText(value.n)))
      [] value.t = "bool" -> ConvertOk(AttributeValue("N", IF value.b THEN <<"1">> ELSE <<"0">>))
      [] value.t = "float" -> ConvertOk(AttributeValue("N", NatToText(value.whole)))
      [] value.t = "str" ->
            IF IsPyIntText(value.s)
            THEN ConvertOk(AttributeValue("N", IntToText(PyIntValue(value.s))))
            ELSE ConvertRaise("ValueError")
      [] OTHER -> ConvertRaise("TypeError")

\* str(float(value))
StrFloat(value) ==
    CASE value.t = "int" -> ConvertOk(AttributeValue("N", IntToText(value.n) \o <<".", "0">>))
      [] value.t = "bool" ->
            ConvertOk(AttributeValue("N", IF value.b THEN <<"1", ".", "0">> ELSE <<"0", ".", "0">>))
      [] value.t = "float" -> ConvertOk(AttributeValue("N", PyRepr(value)))
      [] value.t = "str" ->
            IF IsPyFloatText(value.s)
            THEN ConvertOk(AttributeValue("N", PyFloatText(value.s)))
            ELSE ConvertRaise("ValueError")
      [] OTHER -> ConvertRaise("TypeError")

\* self._convert_value_by_dtype(value, dtype); dtype is None when the
\* condition has none
ConvertValueByDtype(value, dtype) ==
    IF dtype.t # "str" THEN ConvertRaise("AttributeError")
    ELSE IF Lower(dtype.s) \in {D_integer, D_int} THEN StrInt(value)
    ELSE IF Lower(dtype.s) \in {D_float, D_double} THEN StrFloat(value)
    ELSE IF Lower(dtype.s) = D_string THEN ConvertOk(AttributeValue("S", PyStr(value)))
    ELSE IF Lower(dtype.s) \in {D_bool, D_boolean} THEN ConvertOk(AttributeValue("BOOL", ~Falsy(value)))
    ELSE ConvertRaise("ValueError")

-----------------------------------------------------------------------------
(* UserRepository.query_users *)

\* condition.get(key)
ConditionGet(condition, key) == IF key \in DOMAIN condition.m THEN condition.m[key] ELSE JNull

\* condition.get('operator', '=')
OperatorOf(condition) ==
    IF "operator" \in DOMAIN condition.m THEN condition.m.operator ELSE JStr(<<"=">>)

PartOk(text, params) == [ok |-> TRUE, err |-> "none", text |-> text, params |-> params]
PartRaise(e) == [ok |-> FALSE, err |-> e, text |-> <<>>, params |-> <<>>]

\* where_parts.append(text); params.append(self._convert_value_by_dtype(value, dtype))
AppendOne(text, converted) ==
    IF converted.ok THEN PartOk(text, <<converted.av>>) ELSE PartRaise(converted.err)

\* where_parts.append(f"{field} BETWEEN ? AND ?") and the two parameters it
\* extends params with, both converted from value
AppendBetween(field, converted) ==
    IF converted.ok
    THEN PartOk(field \o <<" ", "B", "E", "T", "W", "E", "E", "N", " ", "?", " ", "A", "N", "D", " ", "?">>, <<converted.av, converted.av>>)
    ELSE PartRaise(converted.err)

\* ", ".join(["?" for _ in value])
Placeholders(value) == Join(<<",", " ">>, [i \in DOMAIN value.items |-> <<"?">>])

\* the branches of the loop body on the lowered operator
WherePartOf(field, operator, value, value2, dtype) ==
    IF operator \in {<<"=">>, <<"<", ">">>, <<"<">>, <<"<", "=">>, <<">">>, <<">", "=">>}
    THEN AppendOne(field \o <<" ">> \o operator \o <<" ", "?">>, ConvertValueByDtype(value, dtype))
    ELSE IF operator = <<"b", "e", "g", "i", "n", "s", "_", "w", "i", "t", "h">>
    THEN AppendOne(<<"b", "e", "g", "i", "n", "s", "_", "w", "i", "t", "h", "(">> \o field \o <<",", " ", "?", ")">>, ConvertValueByDtype(value, dtype))
    ELSE IF operator = <<"c", "o", "n", "t", "a", "i", "n", "s">>
    THEN AppendOne(<<"c", "o", "n", "t", "a", "i", "n", "s", "(">> \o field \o <<",", " ", "?", ")">>, ConvertValueByDtype(value, dtype))
    ELSE IF operator = <<"n", "o", "t", "_", "c", "o", "n", "t", "a", "i", "n", "s">>
    THEN AppendOne(<<"N", "O", "T", " ", "c", "o", "n", "t", "a", "i", "n", "s", "(">> \o field \o <<",", " ", "?", ")">>, ConvertValueByDtype(value, dtype))
    ELSE IF operator = <<"b", "e", "t", "w", "e", "e", "n">> /\ value2 # JNull
    THEN AppendBetween(field, ConvertValueByDtype(value, dtype))
    ELSE IF operator = <<"i", "n">> /\ value.t = "list"
    THEN PartOk(field \o <<" ", "I", "N", " ", "(">> \o Placeholders(value) \o <<")">>,
                [i \in DOMAIN value.items |-> ConvertToDynamodbType(value.items[i])])
    ELSE AppendOne(field \o <<" ", "=", " ", "?">>, ConvertValueByDtype(value, dtype))

\* the loop body for one item of conditions: a value that is no dict reads
\* AppConstants.STRING, which AppConstants does not have
WherePart(field, condition) ==
    IF condition.t # "dict" THEN PartRaise("AttributeError")
    ELSE IF OperatorOf(condition).t # "str" THEN PartRaise("AttributeError")
    ELSE WherePartOf(field, Lower(OperatorOf(condition).s), ConditionGet(condition, "value"),
                     ConditionGet(condition, "value2"), ConditionGet(condition, "dtype"))

\* for field, condition in conditions.items(): the parts up to the first that raises
RECURSIVE WhereParts(_, _)
WhereParts(items, parts) ==
    IF items = <<>> THEN [ok |-> TRUE, err |-> "none", parts |-> parts]
    ELSE IF ~WherePart(Head(items).field, Head(items).condition).ok
    THEN [ok |-> FALSE, err |-> WherePart(Head(items).field, Head(items).condition).err,
          parts |-> parts]
    ELSE WhereParts(Tail(items),
                    Append(parts, WherePart(Head(items).field, Head(items).condition)))

HasTenantId(items) == \E i \in DOMAIN items : items[i].field = T_tenant_id

\* if AppConstants.TENANT_ID not in conditions: conditions[AppConstants.TENANT_ID] = tenant_id
ConditionsWithTenant(items, tenant) ==
    IF items = <<>> \/ HasTenantId(items) THEN items
    ELSE Append(items, [field |-> T_tenant_id, condition |-> JStr(tenant)])

ExecuteRaise(e) == [ok |-> FALSE, err |-> e]

\* self.execute_partiql(query, params): the request handed to execute_statement,
\* which has Parameters when params is not empty; where_parts is kept beside it
ExecutePartiql(built) ==
    IF ~built.ok THEN ExecuteRaise(built.err)
    ELSE [ok |-> TRUE, err |-> "none",
          Statement |-> <<"S", "E", "L", "E", "C", "T", " ", "*", " ", "F", "R", "O", "M", " ">> \o T_users \o <<" ", "W", "H", "E", "R", "E", " ">>
                            \o Join(<<" ", "A", "N", "D", " ">>, [i \in DOMAIN built.parts |-> built.parts[i].text]),
          Parameters |-> Flatten([i \in DOMAIN built.parts |-> built.parts[i].params]),
          has_parameters |-> Flatten([i \in DOMAIN built.parts |-> built.parts[i].params]) # <<>>,
          where_parts |-> built.parts]

\* query_users(conditions, tenant_id)
QueryUsers(items, tenant) ==
    IF items = <<>> THEN ExecuteRaise("ValueError")
    ELSE ExecutePartiql(WhereParts(ConditionsWithTenant(items, tenant), <<>>))

-----------------------------------------------------------------------------
(* Calls of UserService.query_users *)

F_age == <<"a", "g", "e">>
F_placeholder == <<"o", "k", "?">>
T_t1 == <<"t", "1">>
T_t2 == <<"t", "2">>

UserCondition(operator, value, dtype) ==
    JDict([operator |-> JStr(operator), value |-> value, dtype |-> JStr(dtype)])
UserBetween(value, value2, dtype) ==
    JDict([operator |-> JStr(<<"b", "e", "t", "w", "e", "e", "n">>), value |-> value, value2 |-> value2, dtype |-> JStr(dtype)])

\* what a caller may say about tenant_id
TenantConditions ==
    { JStr(T_t2),
      UserCondition(<<"=">>, JStr(T_t1), D_string),
      UserCondition(<<"=">>, JStr(T_t2), D_string),
      UserCondition(<<"<", ">">>, JStr(T_t1), D_string),
      UserCondition(<<"i", "n">>, JList(<<>>), D_string) }

FieldConditions ==
    { JInt(3),
      UserCondition(<<"=">>, JInt(3), D_int),
      UserCondition(<<">">>, JStr(<<" ", "7">>), D_integer),
      UserCondition(<<"<", "=">>, JInt(3), <<"F", "l", "o", "a", "t">>),
      UserCondition(<<">", "=">>, JStr(<<"1", ".", "5", "0">>), D_double),
      UserCondition(<<"=">>, JStr(<<"a", "b", "c">>), D_int),
      UserCondition(<<"=">>, JNull, D_int),
      UserCondition(<<"=">>, JInt(3), D_uuid),
      UserCondition(<<"b", "e", "g", "i", "n", "s", "_", "w", "i", "t", "h">>, JStr(T_t1), D_string),
      UserCondition(<<"C", "O", "N", "T", "A", "I", "N", "S">>, JInt(3), D_string),
      UserCondition(<<"n", "o", "t", "_", "c", "o", "n", "t", "a", "i", "n", "s">>, JInt(0), D_boolean),
      UserCondition(<<"l", "i", "k", "e">>, JBool(TRUE), D_bool),
      UserBetween(JInt(3), JInt(9), D_int),
      UserBetween(JInt(3), JInt(3), D_int),
      UserBetween(JInt(3), JNull, D_int),
      UserCondition(<<"i", "n">>, JList(<<JInt(9), JStr(T_t1), JBool(TRUE)>>), D_int),
      UserCondition(<<"i", "n">>, JList(<<>>), D_int),
      UserCondition(<<"i", "n">>, JInt(3), D_int),
      JDict([operator |-> JStr(<<"=">>), value |-> JInt(3)]),
      JDict([value |-> JStr(T_t1), dtype |-> JStr(D_string)]),
      JDict([operator |-> JNull, value |-> JInt(3), dtype |-> JStr(D_int)]) }

ConditionItems ==
    {[field |-> T_tenant_id, condition |-> c] : c \in TenantConditions}
        \cup {[field |-> f, condition |-> c] : f \in {F_age, F_placeholder}, c \in FieldConditions}

MaxConditions == 2

\* a dict has each key once
ConditionMappings ==
    {m \in UNION {[1..n -> ConditionItems] : n \in 0..MaxConditions} :
        \A i, j \in DOMAIN m : m[i].field = m[j].field => i = j}

Tenants == {T_t1, T_t2}

InitQuery ==
    /\ schema = EmptySchema
    /\ pc = "call"
    /\ call = "query_users"
    /\ dsl = JNull
    /\ allow = FALSE
    /\ fields = <<>>
    /\ result = NoResult
    /\ extracted = NoExtracted
    /\ validated = NoValidated
    /\ ncalls = 1
    /\ memo = NoMemo
    /\ conditions \in ConditionMappings
    /\ tenant_id \in Tenants
    /\ executed = NoExecuted
    /\ dynamodb = <<>>
    /\ procs = <<>>

\* user_service.query_users(conditions, tenant_id), which hands both to
\* user_repo.query_users and lets its error pass
DoQueryUsers ==
    /\ pc = "call" /\ call = "query_users"
    /\ executed' = QueryUsers(conditions, tenant_id)
    /\ conditions' = ConditionsWithTenant(conditions, tenant_id)
    /\ pc' = "done"
    /\ UNCHANGED <<schema, call, dsl, allow, fields, result, extracted, validated, ncalls, memo>>
    /\ UNCHANGED <<tenant_id, dynamodb, procs>>

NextQuery == DoQueryUsers

SpecQuery == InitQuery /\ [][NextQuery]_vars

-----------------------------------------------------------------------------
(* DynamoDB: the item operations the repositories use, each atomic on its item *)

\* the rows of a table, by key
NoRows == [k \in {} |-> {}]
HasRow(table, key) == key \in DOMAIN table
WithRow(table, key, item) == [k \in DOMAIN table \cup {key} |-> IF k = key THEN item ELSE table[k]]

\* a map attribute from names to numbers
NoCounters == [event_type \in {} |-> 0]
CounterOf(counters, event_type) ==
    IF event_type \in DOMAIN counters THEN counters[event_type] ELSE 0

\* a row of interaction_tracking: its key and the attributes it has
TrackingItem(has_unique_users, unique_users, has_interactions, interactions) ==
    [has_unique_users |-> has_unique_users, unique_users |-> unique_users,
     has_interactions |-> has_interactions, interactions |-> interactions]

\* update_item with UpdateExpression "ADD unique_users :inc": the row is made
\* when it is missing, the attribute starts from :inc when it is missing
AddUniqueUsers(table, key, by) ==
    IF ~HasRow(table, key) THEN WithRow(table, key, TrackingItem(TRUE, by, FALSE, NoCounters))
    ELSE IF table[key].has_unique_users
    THEN WithRow(table, key, [table[key] EXCEPT !.unique_users = @ + by])
    ELSE WithRow(table, key, [table[key] EXCEPT !.has_unique_users = TRUE, !.unique_users = by])

\* SET interactions.#evt = if_not_exists(interactions.#evt, :zero) + :val, for
\* each event type of event_increments
Incremented(counters, event_increments) ==
    [event_type \in DOMAIN counters \cup DOMAIN event_increments |->
        CounterOf(counters, event_type) + CounterOf(event_increments, event_type)]

\* update_item with the condition attribute_exists(#tenant_id) AND
\* attribute_exists(#month): the condition fails on a missing row; the document
\* path interactions.#evt is invalid for update on a row without the map
\* interactions
UpdateItemOutcome(table, key) ==
    IF ~HasRow(table, key) THEN "ConditionalCheckFailedException"
    ELSE IF ~table[key].has_interactions THEN "ValidationException"
    ELSE "updated"

UpdateItem(table, key, event_increments) ==
    IF UpdateItemOutcome(table, key) = "updated"
    THEN WithRow(table, key,
                 [table[key] EXCEPT !.interactions = Incremented(@, event_increments)])
    ELSE table

\* put_item of a row with tenant_id, month and interactions: the row it finds
\* is replaced
PutInteractions(table, key, event_increments) ==
    WithRow(table, key, TrackingItem(FALSE, 0, TRUE, event_increments))

\* the condition attribute_not_exists(user_id) of a put_item, on the row of the key
IsNewUserUnconditional(rows, key) == TRUE
IsNewUser(rows, key) == key \notin rows

\* the put_item of a row that passed the condition
PutUserOnce(rows, key) == rows \cup {key}

-----------------------------------------------------------------------------
(* InteractionTrackingService.track_interaction and the repository calls
   behind it, as concurrent calls *)

T_month == <<"2", "0", "2", "5", "-", "0", "8">>
T_u1 == <<"u", "1">>
T_u2 == <<"u", "2">>
T_purchase == <<"p", "u", "r", "c", "h", "a", "s", "e">>
T_view == <<"v", "i", "e", "w">>

\* entity.tenant_month
TenantMonth(tenant, month) == tenant \o <<"#">> \o month

EventIncrements ==
    { NoCounters,
      [event_type \in {T_purchase} |-> 1],
      [event_type \in {T_purchase, T_view} |-> IF event_type = T_purchase THEN 2 ELSE 1] }

Users == {T_u1, T_u2}

\* if event_increments: ... (a call without increments makes no update)
UpdateOrDone(event_increments) ==
    IF event_increments = NoCounters THEN "done" ELSE "update_item"

\* a call: its arguments, the store call it is about to make, and what it
\* has got and done so far
TrackingCall(op, at, tenant, user, event_increments) ==
    [op |-> op, pc |-> at, tenant_id |-> tenant, user_id |-> user, month |-> T_month,
     event_increments |-> event_increments,
     is_first_time |-> FALSE, increments |-> 0, updated |-> "none"]

TrackingCalls ==
    {TrackingCall("track_interaction", "mark_user_seen_once", t, u, inc) :
        t \in Tenants, u \in Users, inc \in EventIncrements}
    \cup {TrackingCall("update_interactions", UpdateOrDone(inc), t, <<>>, inc) :
        t \in Tenants, inc \in EventIncrements}
    \cup {TrackingCall("increment_unique_users", "increment_unique_users", t, <<>>, NoCounters) :
        t \in Tenants}

MaxProcs == 2

\* the month's row of a tenant is missing or has been created by update_interactions
InitialTrackingTables ==
    {NoRows} \cup {WithRow(NoRows, <<t, T_month>>, TrackingItem(FALSE, 0, TRUE, NoCounters)) : t \in Tenants}

InitTracking ==
    /\ schema = EmptySchema
    /\ pc = "done"
    /\ call = "track_interaction"
    /\ dsl = JNull
    /\ allow = FALSE
    /\ fields = <<>>
    /\ result = NoResult
    /\ extracted = NoExtracted
    /\ validated = NoValidated
    /\ ncalls = 0
    /\ memo = NoMemo
    /\ conditions = <<>>
    /\ tenant_id = <<>>
    /\ executed = NoExecuted
    /\ dynamodb \in [interaction_user_tracker : {{}}, interaction_tracking : InitialTrackingTables]
    /\ procs \in UNION {[1..n -> TrackingCalls] : n \in 1..MaxProcs}

CompilerIdle ==
    UNCHANGED <<schema, pc, call, dsl, allow, fields, result, extracted, validated, ncalls, memo,
                conditions, tenant_id, executed>>

TrackerKey(p) == <<TenantMonth(procs[p].tenant_id, procs[p].month), procs[p].user_id>>
TrackingKey(p) == <<procs[p].tenant_id, procs[p].month>>

\* after step 1 of track_interaction, or at the end of a direct call
AfterUniqueUsers(p) ==
    IF procs[p].op = "track_interaction" THEN UpdateOrDone(procs[p].event_increments) ELSE "done"

\* mark_user_seen_once(entity) of a user who has no row: True
MarkUserSeenFirst(p) ==
    /\ procs[p].pc = "mark_user_seen_once"
    /\ IsNewUser(dynamodb.interaction_user_tracker, TrackerKey(p))
    /\ dynamodb' = [dynamodb EXCEPT !.interaction_user_tracker = PutUserOnce(@, TrackerKey(p))]
    /\ procs' = [procs EXCEPT ![p].is_first_time = TRUE, ![p].pc = "increment_unique_users"]
    /\ CompilerIdle

\* mark_user_seen_once(entity) of a user who has a row: the condition fails, False
MarkUserSeenAgain(p) ==
    /\ procs[p].pc = "mark_user_seen_once"
    /\ ~IsNewUser(dynamodb.interaction_user_tracker, TrackerKey(p))
    /\ procs' = [procs EXCEPT ![p].pc = AfterUniqueUsers(p)]
    /\ UNCHANGED dynamodb
    /\ CompilerIdle

\* increment_unique_users(tenant_id, month, by=1)
IncrementUniqueUsers(p) ==
    /\ procs[p].pc = "increment_unique_users"
    /\ dynamodb' = [dynamodb EXCEPT !.interaction_tracking = AddUniqueUsers(@, TrackingKey(p), 1)]
    /\ procs' = [procs EXCEPT ![p].increments = @ + 1, ![p].pc = AfterUniqueUsers(p)]
    /\ CompilerIdle

\* where update_interactions goes after its update_item
AfterUpdateItem(outcome) ==
    IF outcome = "ConditionalCheckFailedException" THEN "put_item" ELSE "done"

\* update_interactions: the update_item call; a failed condition leads to the
\* put_item, any other error is logged and returned as {"ok": False}
UpdateInteractions(p) ==
    /\ procs[p].pc = "update_item"
    /\ dynamodb' = [dynamodb EXCEPT
                      !.interaction_tracking = UpdateItem(@, TrackingKey(p), procs[p].event_increments)]
    /\ procs' = [procs EXCEPT
                   ![p].updated = UpdateItemOutcome(dynamodb.interaction_tracking, TrackingKey(p)),
                   ![p].pc = AfterUpdateItem(UpdateItemOutcome(dynamodb.interaction_tracking, TrackingKey(p)))]
    /\ CompilerIdle

\* update_interactions: the put_item call made after the condition failed
CreateInteractions(p) ==
    /\ procs[p].pc = "put_item"
    /\ dynamodb' = [dynamodb EXCEPT
                      !.interaction_tracking = PutInteractions(@, TrackingKey(p), procs[p].event_increments)]
    /\ procs' = [procs EXCEPT ![p].updated = "created", ![p].pc = "done"]
    /\ CompilerIdle

NextTracking ==
    \E p \in DOMAIN procs :
        \/ MarkUserSeenFirst(p)
        \/ MarkUserSeenAgain(p)
        \/ IncrementUniqueUsers(p)
        \/ UpdateInteractions(p)
        \/ CreateInteractions(p)

SpecTracking == InitTracking /\ [][NextTracking]_vars

-----------------------------------------------------------------------------
(* RecommendationRepository.create_recommendation, as concurrent calls *)

T_r1 == <<"r", "1">>
T_r2 == <<"r", "2">>
T_old == <<"o", "l", "d">>
T_a == <<"a">>
T_b == <<"b">>

\* not recommendation.tenant_id or not recommendation.recommendation_id
MissingKeyPart(tenant, recommendation_id) == tenant = <<>> \/ recommendation_id = <<>>

\* a call: the entity it was given, the store call it is about to make and
\* what it returned or raised
CreateCall(tenant, recommendation_id, name) ==
    [op |-> "create_recommendation",
     pc |-> IF MissingKeyPart(tenant, recommendation_id) THEN "done" ELSE "get_item",
     tenant_id |-> tenant, recommendation_id |-> recommendation_id, name |-> name,
     returned |-> IF MissingKeyPart(tenant, recommendation_id) THEN "ValueError: required" ELSE "none"]

CreateCalls ==
    {CreateCall(t, r, n) : t \in {T_t1, <<>>}, r \in {T_r1, T_r2}, n \in {T_a, T_b}}

\* the table is empty or has a record r1 of tenant t1
InitialRecommendations == {NoRows, WithRow(NoRows, <<T_t1, T_r1>>, [name |-> T_old])}

InitRecommendation ==
    /\ schema = EmptySchema
    /\ pc = "done"
    /\ call = "create_recommendation"
    /\ dsl = JNull
    /\ allow = FALSE
    /\ fields = <<>>
    /\ result = NoResult
    /\ extracted = NoExtracted
    /\ validated = NoValidated
    /\ ncalls = 0
    /\ memo = NoMemo
    /\ conditions = <<>>
    /\ tenant_id = <<>>
    /\ executed = NoExecuted
    /\ dynamodb \in [recommendations : InitialRecommendations]
    /\ procs \in UNION {[1..n -> CreateCalls] : n \in 1..MaxProcs}

RecommendationKey(p) == <<procs[p].tenant_id, procs[p].recommendation_id>>

\* existing = self.get_recommendation(...); if existing: raise ValueError(... already exists)
AfterGetItem(table, key) == IF HasRow(table, key) THEN "done" ELSE "put_item"
RaisedAfterGetItem(table, key) == IF HasRow(table, key) THEN "ValueError: already exists" ELSE "none"

\* create_recommendation: the get_item of get_recommendation and the test of
\* what it found
GetRecommendation(p) ==
    /\ procs[p].pc = "get_item"
    /\ procs' = [procs EXCEPT
                   ![p].pc = AfterGetItem(dynamodb.recommendations, RecommendationKey(p)),
                   ![p].returned = RaisedAfterGetItem(dynamodb.recommendations, RecommendationKey(p))]
    /\ UNCHANGED dynamodb
    /\ CompilerIdle

\* self.table.put_item(Item=item): the record it finds is replaced
PutItem(table, key, item) == WithRow(table, key, item)

\* create_recommendation: the put_item, and the entity returned
PutRecommendation(p) ==
    /\ procs[p].pc = "put_item"
    /\ dynamodb' = [dynamodb EXCEPT
                      !.recommendations = PutItem(@, RecommendationKey(p), [name |-> procs[p].name])]
    /\ procs' = [procs EXCEPT ![p].pc = "done", ![p].returned = "created"]
    /\ CompilerIdle

NextRecommendation ==
    \E p \in DOMAIN procs : GetRecommendation(p) \/ PutRecommendation(p)

SpecRecommendation == InitRecommendation /\ [][NextRecommendation]_vars

-----------------------------------------------------------------------------
(* The rule tree, as the specification reads it *)

\* a compile call has returned or raised
Done == pc = "done" /\ call = "compile"

\* the elements of the rules list of a group node
Children(node) ==
    IF HasKey(node, "rules") /\ node.m.rules.t = "list" THEN node.m.rules.items ELSE <<>>

\* the nodes of the tree in left-to-right, depth-first order, parents first
RECURSIVE Preorder(_)
Preorder(node) ==
    <<node>> \o Flatten([i \in DOMAIN Children(node) |-> Preorder(Children(node)[i])])

IsEmptyGroup(node) ==
    /\ HasKey(node, "rules") /\ HasKey(node, "op")
    /\ node.m.op \in {JStr(T_AND), JStr(T_OR)}
    /\ node.m.rules = JList(<<>>)

\* " AND " or " OR ", by the combinator of the group
Separator(group) ==
    IF group.m.op = JStr(<<"A", "N", "D">>) THEN <<" ", "A", "N", "D", " ">>
    ELSE <<" ", "O", "R", " ">>

\* The text of a tree of valid nodes: children in input order, joined by the
\* separator, group children in one pair of parentheses, the root bare
RECURSIVE Render(_, _)
Render(sch, group) ==
    LET kids == Children(group)
        piece(i) == IF HasKey(kids[i], "rules")
                    THEN <<"(">> \o Render(sch, kids[i]) \o <<")">>
                    ELSE CompileRule(sch, kids[i]).text
    IN  IF kids = <<>> THEN <<"t", "r", "u", "e">>
        ELSE Join(Separator(group), [i \in DOMAIN kids |-> piece(i)])

-----------------------------------------------------------------------------
(* C1 *)

\* C1: a group with an empty rules list compiles to the text true without an
\* error, under every schema, either allow_context_item and both combinators;
\* as a nested child it contributes the text (true) to its parent.
C1_EmptyGroupIsTrue ==
    Done =>
        LET kids == Children(dsl)
            part(i) == IF IsEmptyGroup(kids[i]) THEN <<"(", "t", "r", "u", "e", ")">>
                       ELSE IF HasKey(kids[i], "rules")
                            THEN <<"(">> \o Compile(schema, kids[i], allow).text \o <<")">>
                            ELSE CompileRule(schema, kids[i]).text
        IN  /\ IsEmptyGroup(dsl) => result.ok /\ result.text = <<"t", "r", "u", "e">>
            /\ (result.ok /\ \E i \in DOMAIN kids : IsEmptyGroup(kids[i]))
                   => result.text = Join(Separator(dsl), [i \in DOMAIN kids |-> part(i)])

C1_Witness ==
    /\ Done /\ result.ok
    /\ Len(Children(dsl)) = 2
    /\ IsEmptyGroup(Children(dsl)[2]) /\ ~HasKey(Children(dsl)[1], "rules")
    /\ dsl.m.op = JStr(T_OR) /\ schema = FullSchema /\ ~allow

-----------------------------------------------------------------------------
(* C2 *)

\* C2: the output of compile lists the children of every group in input
\* order, joined by " AND " or " OR " by the group's op; a group child is in
\* exactly one pair of parentheses, a condition child and the root are bare.
C2_GroupEmission == (Done /\ result.ok) => result.text = Render(schema, dsl)

C2_Witness ==
    /\ Done /\ result.ok /\ schema = FullSchema
    /\ dsl = Group(T_OR, <<Group(T_AND, <<L_books, L_not_in>>)>>)
    /\ Head(result.text) = "(" /\ result.text[Len(result.text)] = ")"

-----------------------------------------------------------------------------
(* C3 *)

\* the condition of a rule tree: what the chain of one-child groups ends in
RECURSIVE Innermost(_)
Innermost(node) ==
    IF HasKey(node, "rules") /\ Children(node) # <<>> THEN Innermost(Children(node)[1])
    ELSE node

\* the allowed operators of each declared type, as the specification tabulates them
AllowlistTable(dtype) ==
    IF dtype = <<"s", "t", "r", "i", "n", "g">>
    THEN {O_eq, O_ne, T_in, T_not_in, T_contains, T_startsWith}
    ELSE IF dtype \in {<<"i", "n", "t">>, <<"f", "l", "o", "a", "t">>}
    THEN {O_eq, O_ne, O_lt, O_le, O_gt, O_ge, T_in, T_not_in}
    ELSE IF dtype = <<"d", "a", "t", "e", "t", "i", "m", "e">>
    THEN {O_eq, O_ne, O_lt, O_le, O_gt, O_ge}
    ELSE {O_eq, O_ne}

\* the operator of the condition is in the allowed set of the type the schema declares
OperatorInTable(sch, cond) == cond.m.operator.s \in AllowlistTable(sch[cond.m.field.s])

\* the quick check of compile_group stops the condition before compile_rule sees it
StoppedByContextCheck(cond, allow_context_item) ==
    UsesContextItem(cond) /\ ~allow_context_item

\* C3: a condition whose field is in the schema passes the operator check if
\* and only if its operator is in the allowed set of the field's declared type;
\* any other operator token makes compile fail with the operator-not-allowed
\* error and produce no output.
C3_OperatorAllowlist ==
    (Done /\ InSchema(schema, Innermost(dsl).m.field)) =>
        IF OperatorInTable(schema, Innermost(dsl))
        THEN result.err # "OperatorNotAllowed"
        ELSE ~result.ok /\ result.err = "OperatorNotAllowed"

\* C3, what the code keeps of it: the allowlist decides for every condition
\* that the context-permission check of compile_group lets through.
C3_AllowlistAfterContextCheck ==
    (Done /\ InSchema(schema, Innermost(dsl).m.field)
          /\ ~StoppedByContextCheck(Innermost(dsl), allow)) =>
        IF OperatorInTable(schema, Innermost(dsl))
        THEN result.err # "OperatorNotAllowed"
        ELSE ~result.ok /\ result.err = "OperatorNotAllowed"

\* C3: price contains {"$context_item": "brand"} without the permission fails
\* with the context error, not with the operator error
C3_Witness ==
    /\ Done /\ schema = FullSchema /\ ~allow
    /\ dsl = Group(T_AND, <<Condition(F_price, T_contains, ContextDict(JStr(F_brand)))>>)
    /\ ~OperatorInTable(schema, Innermost(dsl))
    /\ ~result.ok /\ result.err = "ContextNotAllowed"

-----------------------------------------------------------------------------
(* C4 *)

\* what is wrong with a group node by itself: the checks of compile_group on entry
GroupFaults(node) ==
    IF ~({"op", "rules"} \subseteq DOMAIN node.m) THEN {"GroupMustContain"}
    ELSE IF node.m.op \notin {JStr(T_AND), JStr(T_OR)} THEN {"GroupOpInvalid"}
    ELSE IF node.m.rules.t # "list" THEN {"RulesNotList"}
    ELSE {}

\* what is wrong with a condition node by itself: the check of its context
\* reference and the first check of compile_rule it does not pass
ConditionFaults(sch, node, allow_context_item) ==
    (IF StoppedByContextCheck(node, allow_context_item) THEN {"ContextNotAllowed"} ELSE {})
    \cup ({CompileRule(sch, node).err} \ {"none"})

\* the errors that belong to a node, whatever the rest of the tree is
FaultsOf(sch, node, allow_context_item) ==
    IF IsNestedGroup(node) THEN GroupFaults(node)
    ELSE IF node.t # "dict" THEN {"RuleNotDict"}
    ELSE ConditionFaults(sch, node, allow_context_item)

\* the positions of the faulty nodes in the left-to-right, depth-first order
FaultyAmong(sch, nodes, allow_context_item) ==
    {i \in DOMAIN nodes : FaultsOf(sch, nodes[i], allow_context_item) # {}}

FaultyPositions(sch, tree, allow_context_item) ==
    FaultyAmong(sch, Preorder(tree), allow_context_item)

HasFaultyNode(sch, tree, allow_context_item) ==
    FaultyPositions(sch, tree, allow_context_item) # {}

Least(positions) == CHOOSE i \in positions : \A j \in positions : i <= j

FirstFaultyPosition(sch, tree, allow_context_item) ==
    Least(FaultyPositions(sch, tree, allow_context_item))

FirstFaultyNode(sch, tree, allow_context_item) ==
    Preorder(tree)[FirstFaultyPosition(sch, tree, allow_context_item)]

\* a condition that names a field the schema does not hold
IsUnknownFieldCondition(sch, node) ==
    /\ node.t = "dict" /\ ~IsNestedGroup(node)
    /\ HasKey(node, "field") /\ ~InSchema(sch, node.m.field)

\* C4: whenever the first faulty node met by the left-to-right depth-first
\* walk is a condition whose field is not in the schema, compile fails with
\* the unknown-property error, whatever the condition's operator and value.
C4_UnknownFieldFirst ==
    (/\ Done
     /\ HasFaultyNode(schema, dsl, allow)
     /\ IsUnknownFieldCondition(schema, FirstFaultyNode(schema, dsl, allow)))
        => ~result.ok /\ result.err = "UnknownProperty"

\* C4, what the code keeps of it: the unknown-property error is raised when
\* the value of that condition is not a context reference made without permission.
C4_UnknownFieldAfterContextCheck ==
    (/\ Done
     /\ HasFaultyNode(schema, dsl, allow)
     /\ IsUnknownFieldCondition(schema, FirstFaultyNode(schema, dsl, allow))
     /\ ~StoppedByContextCheck(FirstFaultyNode(schema, dsl, allow), allow))
        => ~result.ok /\ result.err = "UnknownProperty"

\* C4: a nested condition on an unknown field whose value is a context
\* reference, after a valid sibling, fails with the context error
C4_Witness ==
    /\ Done /\ schema = FullSchema /\ ~allow
    /\ dsl = Group(T_AND, <<L_books, Group(T_OR, <<L_unknown_context>>)>>)
    /\ FirstFaultyNode(schema, dsl, allow) = L_unknown_context
    /\ ~result.ok /\ result.err = "ContextNotAllowed"

-----------------------------------------------------------------------------
(* C5 *)

\* a condition whose value is a context reference, in either form
IsContextCondition(node) ==
    /\ node.t = "dict" /\ ~IsNestedGroup(node)
    /\ HasKey(node, "value")
    /\ \/ HasKey(node.m.value, "$context_item")
       \/ node.m.value.t = "str"
          /\ StartsWith(node.m.value.s,
                        <<"$", "c", "o", "n", "t", "e", "x", "t", "_", "i", "t", "e", "m", ".">>)

HasContextCondition(tree) ==
    \E i \in DOMAIN Preorder(tree) : IsContextCondition(Preorder(tree)[i])

\* C5: for every tree in which some condition's value is a context reference
\* (the mapping form or the string form), at any nesting depth, compile
\* with allow_context_item=false never returns a string; when that condition is
\* the first faulty node of the walk, the error is the context-not-allowed one.
C5_ContextNotAllowed ==
    (Done /\ ~allow /\ HasContextCondition(dsl)) =>
        /\ ~result.ok
        /\ IsContextCondition(FirstFaultyNode(schema, dsl, allow))
               => result.err = "ContextNotAllowed"

\* C5: a string-form reference two groups deep, after a valid sibling
C5_Witness ==
    /\ Done /\ ~allow /\ schema = FullSchema
    /\ dsl = Group(T_AND, <<L_books, Group(T_OR, <<L_context_string>>)>>)
    /\ ~result.ok /\ result.err = "ContextNotAllowed"

-----------------------------------------------------------------------------
(* C6 *)

\* in and not in take a list
TakesList(cond) == cond.m.operator.s \in {<<"i", "n">>, <<"n", "o", "t", " ", "i", "n">>}

\* the value is a list where a scalar is due, or the reverse
ShapeMismatch(cond) == TakesList(cond) # (cond.m.value.t = "list")

\* the two messages of compile_rule for a list given to a scalar operator
ListNotAllowedErrors == {"DoesNotAcceptList", "ExpectsSingleValue"}

\* the error the specification assigns to a mismatched shape
ShapeErrorIs(cond, err) ==
    IF TakesList(cond) THEN err = "RequiresList" ELSE err \in ListNotAllowedErrors

\* C6: for in and not in a value that is not a list fails with the
\* requires-list error, and for every other operator a list value fails with
\* the list-not-allowed error (the field being known and the operator allowed
\* for its type); no condition with a mismatched value shape produces output.
C6_ValueShape ==
    (Done /\ ShapeMismatch(Innermost(dsl))) =>
        /\ ~result.ok
        /\ (InSchema(schema, Innermost(dsl).m.field) /\ OperatorInTable(schema, Innermost(dsl)))
               => ShapeErrorIs(Innermost(dsl), result.err)

\* C6, what the code keeps of it: no mismatched shape produces output, and the
\* shape error is the one raised unless the context-permission check comes first.
C6_ShapeAfterContextCheck ==
    (Done /\ ShapeMismatch(Innermost(dsl))) =>
        /\ ~result.ok
        /\ (/\ InSchema(schema, Innermost(dsl).m.field)
            /\ OperatorInTable(schema, Innermost(dsl))
            /\ ~StoppedByContextCheck(Innermost(dsl), allow))
               => ShapeErrorIs(Innermost(dsl), result.err)

\* C6: category in {"$context_item": "brand"} without the permission fails
\* with the context error, not with the requires-list error
C6_Witness ==
    /\ Done /\ schema = FullSchema /\ ~allow
    /\ dsl = Group(T_AND, <<Condition(F_category, T_in, ContextDict(JStr(F_brand)))>>)
    /\ ShapeMismatch(Innermost(dsl))
    /\ ~result.ok /\ result.err = "ContextNotAllowed"

-----------------------------------------------------------------------------
(* C7 *)

\* the nodes of the tree up to and including the first faulty one
UpToFirstFault(sch, tree, allow_context_item) ==
    SubSeq(Preorder(tree), 1, FirstFaultyPosition(sch, tree, allow_context_item))

\* C7: compile is fail-fast in left-to-right, depth-first order: when the tree
\* holds faulty nodes, the error raised belongs to the first faulty node in
\* that order, the walk has visited the nodes up to that one and none after
\* it, and no output is returned; a tree without a faulty node is walked whole.
C7_FailFast ==
    Done =>
        IF HasFaultyNode(schema, dsl, allow)
        THEN /\ ~result.ok /\ result.text = <<>>
             /\ result.err \in FaultsOf(schema, FirstFaultyNode(schema, dsl, allow), allow)
             /\ result.walk = UpToFirstFault(schema, dsl, allow)
        ELSE result.ok /\ result.walk = Preorder(dsl)

\* C7: two faulty nodes, the first one nested; the error is that of the first,
\* and the walk ends there
C7_Witness ==
    /\ Done /\ schema = OtherSchema /\ ~allow
    /\ dsl = Group(T_OR, <<Group(T_AND, <<L_unknown>>), L_xor>>)
    /\ FaultyPositions(schema, dsl, allow) = {3, 4}
    /\ ~result.ok /\ result.err = "UnknownProperty"
    /\ result.walk = <<dsl, Group(T_AND, <<L_unknown>>), L_unknown>>

-----------------------------------------------------------------------------
(* C8 *)

-----------------------------------------------------------------------------
(* C9 *)

\* a condition with contains or startsWith on a field the schema declares as
\* int, float, datetime or boolean
IsTextMatchOnNonString(sch, cond) ==
    /\ InSchema(sch, cond.m.field)
    /\ sch[cond.m.field.s] \in {<<"i", "n", "t">>, <<"f", "l", "o", "a", "t">>,
                                <<"d", "a", "t", "e", "t", "i", "m", "e">>,
                                <<"b", "o", "o", "l", "e", "a", "n">>}
    /\ cond.m.operator.s \in {<<"c", "o", "n", "t", "a", "i", "n", "s">>,
                              <<"s", "t", "a", "r", "t", "s", "W", "i", "t", "h">>}

\* C9: for a condition on an int, float, datetime or boolean field with
\* operator contains (or startsWith), compile fails with the
\* operator-not-allowed error whatever the value is, including a list, a
\* null, or a value that could not be formatted.
C9_ContainsNonString ==
    (Done /\ IsTextMatchOnNonString(schema, Innermost(dsl)))
        => ~result.ok /\ result.err = "OperatorNotAllowed"

\* C9, what the code keeps of it: the operator error is raised, before any
\* formatting, unless the context-permission check of compile_group comes first.
C9_ContainsAfterContextCheck ==
    (Done /\ IsTextMatchOnNonString(schema, Innermost(dsl))
          /\ ~StoppedByContextCheck(Innermost(dsl), allow))
        => ~result.ok /\ result.err = "OperatorNotAllowed"

\* C9: is_available startsWith "$context_item.brand" without the permission
\* fails with the context error
C9_Witness ==
    /\ Done /\ schema = FullSchema /\ ~allow
    /\ dsl = Group(T_AND, <<Condition(F_is_available, T_startsWith, ContextString(F_brand))>>)
    /\ IsTextMatchOnNonString(schema, Innermost(dsl))
    /\ ~result.ok /\ result.err = "ContextNotAllowed"

-----------------------------------------------------------------------------
(* C10 *)

\* the tree with the dtype of its condition taken into the schema, as the
\* specification resolves the type
OverriddenSchema(sch, tree) == SchemaWithOverride(sch, Innermost(tree))

\* the tree with the dtype key of every condition removed
RECURSIVE WithoutDtype(_)
WithoutDtype(node) ==
    IF node.t # "dict" THEN node
    ELSE IF IsNestedGroup(node)
         THEN JDict([k \in DOMAIN node.m |->
                        IF k = "rules" /\ node.m.rules.t = "list"
                        THEN JList([i \in DOMAIN node.m.rules.items |->
                                       WithoutDtype(node.m.rules.items[i])])
                        ELSE node.m[k]])
    ELSE JDict([k \in DOMAIN node.m \ {"dtype"} |-> node.m[k]])

\* the same text, or the same error
SameOutcome(a, b) == a.ok = b.ok /\ a.text = b.text /\ a.err = b.err

\* the errors of the operator check and of the value checks of compile_rule
OperatorAndValueErrors ==
    {"OperatorNotAllowed", "RequiresList", "DoesNotAcceptList", "ExpectsSingleValue",
     "OnlyValidForString", "MultiValueRequiresList", "InvalidNumber", "InvalidBoolean",
     "InvalidDatetime", "InvalidContextRef"}

-----------------------------------------------------------------------------
(* C11 *)

\* the constructor has returned or raised
Constructed == pc = "done" /\ call = "__init__"

\* some declared type is outside {int, float, string, datetime, boolean}
HasUnsupportedType(sch) ==
    \E prop \in DOMAIN sch :
        sch[prop] \notin {<<"i", "n", "t">>, <<"f", "l", "o", "a", "t">>,
                          <<"s", "t", "r", "i", "n", "g">>,
                          <<"d", "a", "t", "e", "t", "i", "m", "e">>,
                          <<"b", "o", "o", "l", "e", "a", "n">>}

\* C11: constructing the compiler fails with the unsupported-type error if
\* and only if at least one declared type of the schema mapping is outside
\* {int, float, string, datetime, boolean}; a schema whose declared types are
\* all within that set, the empty schema included, is always accepted.
C11_SupportedTypes ==
    Constructed =>
        IF HasUnsupportedType(schema)
        THEN ~result.ok /\ result.err = "UnsupportedDatatype"
        ELSE result.ok

\* C11, what the code keeps of it: the empty schema is accepted; every other
\* mapping, of supported types or not, fails on the attribute lookup.
C11_OnlyEmptyAccepted ==
    Constructed =>
        IF DOMAIN schema = {} THEN result.ok
        ELSE ~result.ok /\ result.err = "AttributeError"

\* C11: a schema of two supported types is refused with AttributeError
C11_Witness ==
    /\ Constructed
    /\ schema = (F_category :> D_string) @@ (F_price :> D_float)
    /\ ~HasUnsupportedType(schema)
    /\ ~result.ok /\ result.err = "AttributeError"

-----------------------------------------------------------------------------
(* C12 *)

\* a node that is not a mapping, a group without op or rules, with an op other
\* than AND and OR or with rules that are not a list, or a condition without
\* field, operator or value
IsMalformed(node) ==
    IF node.t # "dict" THEN TRUE
    ELSE IF "rules" \in DOMAIN node.m \/ "op" \in DOMAIN node.m
         THEN \/ ~({"op", "rules"} \subseteq DOMAIN node.m)
              \/ node.m.op \notin {JStr(<<"A", "N", "D">>), JStr(<<"O", "R">>)}
              \/ node.m.rules.t # "list"
    ELSE ~({"field", "operator", "value"} \subseteq DOMAIN node.m)

HasMalformedNode(tree) == \E i \in DOMAIN Preorder(tree) : IsMalformed(Preorder(tree)[i])

\* the errors of the structure checks of compile_group and compile_rule
MalformedInputErrors ==
    {"GroupMustContain", "GroupOpInvalid", "RulesNotList", "RuleNotDict", "RuleMustContain"}

\* C12: compile rejects every structurally malformed node with the
\* malformed-input error and never emits text for it: a tree that holds such a
\* node gives no output, and when the node is the first faulty one of the walk
\* the error is a malformed-input error.
C12_MalformedRejected ==
    (Done /\ HasMalformedNode(dsl)) =>
        /\ ~result.ok
        /\ IsMalformed(FirstFaultyNode(schema, dsl, allow))
               => result.err \in MalformedInputErrors

\* the node is a mapping that compile_group rejects for its context reference
RejectedForContext(node, allow_context_item) ==
    node.t = "dict" /\ StoppedByContextCheck(node, allow_context_item)

\* C12, what the code keeps of it: no text for a tree with a malformed node,
\* and the malformed-input error unless the node is a mapping whose value is a
\* context reference made without permission.
C12_MalformedAfterContextCheck ==
    (Done /\ HasMalformedNode(dsl)) =>
        /\ ~result.ok
        /\ (/\ IsMalformed(FirstFaultyNode(schema, dsl, allow))
            /\ ~RejectedForContext(FirstFaultyNode(schema, dsl, allow), allow))
               => result.err \in MalformedInputErrors

\* C12: a condition without a field whose value is a context reference, in a
\* nested group, fails with the context error
C12_Witness ==
    /\ Done /\ schema = FullSchema /\ ~allow
    /\ dsl = Group(T_AND, <<L_books, Group(T_OR, <<M_no_field_context>>)>>)
    /\ FirstFaultyNode(schema, dsl, allow) = M_no_field_context
    /\ ~result.ok /\ result.err = "ContextNotAllowed"

-----------------------------------------------------------------------------
(* C13 *)

\* the number of groups between the root group and the condition
RECURSIVE NestingDepth(_)
NestingDepth(node) ==
    IF HasKey(node, "rules") /\ Children(node) # <<>>
    THEN 1 + NestingDepth(Children(node)[1])
    ELSE 0

\* text in the parentheses of the nested groups around it; the root adds none
RECURSIVE Nested(_, _)
Nested(text, depth) ==
    IF depth <= 1 THEN text ELSE <<"(">> \o Nested(text, depth - 1) \o <<")">>

\* f(v1), ..., f(vn): the formatted elements, in order, separated by ", "
RECURSIVE FormattedElements(_, _)
FormattedElements(items, dtype) ==
    IF items = <<>> THEN <<>>
    ELSE FormatValue(Head(items), dtype).text
         \o (IF Len(items) = 1 THEN <<>> ELSE <<",", " ">>)
         \o FormattedElements(Tail(items), dtype)

\* 'field' in {f(v1), ..., f(vn)}
MembershipText(cond, dtype) ==
    <<"'">> \o cond.m.field.s \o <<"'", " ", "i", "n", " ", "{">>
    \o FormattedElements(cond.m.value.items, dtype) \o <<"}">>

\* a condition with operator in or not in on a field whose type allows it and a
\* list of values that the formatter of the type accepts
IsValidMembership(sch, cond) ==
    /\ {"field", "operator", "value"} \subseteq DOMAIN cond.m
    /\ cond.m.operator \in {JStr(<<"i", "n">>), JStr(<<"n", "o", "t", " ", "i", "n">>)}
    /\ InSchema(sch, cond.m.field)
    /\ sch[cond.m.field.s] \in {D_string, D_int, D_float}
    /\ cond.m.value.t = "list"
    /\ \A i \in DOMAIN cond.m.value.items :
           FormatValue(cond.m.value.items[i], sch[cond.m.field.s]).ok

\* C13: for a valid condition with operator in and value list [v1, ..., vn],
\* compile emits 'field' in {f(v1), ..., f(vn)}, f the scalar formatter of the
\* field's type, the elements in input order and multiplicity; for not in it
\* emits not ( followed by the text of the same condition with in, followed by ).
C13_Membership ==
    (Done /\ IsValidMembership(schema, Innermost(dsl))) =>
        /\ result.ok
        /\ result.text =
             Nested(IF Innermost(dsl).m.operator = JStr(<<"i", "n">>)
                    THEN MembershipText(Innermost(dsl), schema[Innermost(dsl).m.field.s])
                    ELSE <<"n", "o", "t", " ", "(">>
                         \o MembershipText(Innermost(dsl), schema[Innermost(dsl).m.field.s])
                         \o <<")">>,
                    NestingDepth(dsl))

\* C13: not in over a list with a repeated element, inside a nested group
C13_Witness ==
    /\ Done /\ schema = FullSchema
    /\ dsl = Group(T_AND, <<Group(T_OR, <<Condition(F_category, T_not_in,
                 JList(<<JStr(<<"B">>), JStr(<<"A">>), JStr(<<"B">>)>>))>>)>>)
    /\ result.ok
    /\ result.text = <<"(", "n", "o", "t", " ", "(", "'", "c", "a", "t", "e", "g", "o", "r", "y",
                       "'", " ", "i", "n", " ", "{", "\"", "B", "\"", ",", " ", "\"", "A", "\"",
                       ",", " ", "\"", "B", "\"", "}", ")", ")">>

-----------------------------------------------------------------------------
(* C14 *)

\* The double-quoted literals of a text as a reader of the output sees them:
\* outside a literal a double quote opens one; inside, a backslash takes the
\* next character as it is and a double quote closes the literal. The result
\* is the un-escaped contents of the literals, left to right, and whether the
\* text ends outside a literal.
RECURSIVE ReadLiterals(_, _, _, _, _)
ReadLiterals(text, i, inside, current, literals) ==
    IF i > Len(text) THEN [closed |-> ~inside, literals |-> literals]
    ELSE IF ~inside
         THEN ReadLiterals(text, i + 1, text[i] = "\"", <<>>, literals)
    ELSE IF text[i] = "\"" THEN ReadLiterals(text, i + 1, FALSE, <<>>, Append(literals, current))
    ELSE IF text[i] = "\\" /\ i < Len(text)
         THEN ReadLiterals(text, i + 2, TRUE, Append(current, text[i + 1]), literals)
    ELSE ReadLiterals(text, i + 1, TRUE, Append(current, text[i]), literals)

LiteralsOf(text) == ReadLiterals(text, 1, FALSE, <<>>, <<>>)

\* the texts a value brings into the output: a string, the property name of a
\* context reference, the elements of a list
RECURSIVE CallerTexts(_)
CallerTexts(val) ==
    IF val.t = "list"
    THEN Flatten([i \in DOMAIN val.items |-> CallerTexts(val.items[i])])
    ELSE IF val.t = "dict" /\ "$context_item" \in DOMAIN val.m
    THEN <<val.m["$context_item"].s>>
    ELSE IF val.t = "str" /\ Len(val.s) >= 14
                          /\ SubSeq(val.s, 1, 14) = <<"$", "c", "o", "n", "t", "e", "x", "t", "_",
                                                     "i", "t", "e", "m", ".">>
    THEN <<SubSeq(val.s, 15, Len(val.s))>>
    ELSE IF val.t = "str" THEN <<val.s>>
    ELSE <<>>

\* the value names the context item, directly or in a list
RECURSIVE HasContextText(_)
HasContextText(val) ==
    IF val.t = "list" THEN \E i \in DOMAIN val.items : HasContextText(val.items[i])
    ELSE \/ val.t = "dict" /\ "$context_item" \in DOMAIN val.m
         \/ val.t = "str" /\ Len(val.s) >= 14
                          /\ SubSeq(val.s, 1, 14) = <<"$", "c", "o", "n", "t", "e", "x", "t", "_",
                                                     "i", "t", "e", "m", ".">>

\* C14: compilation is free of string injection: every caller-supplied text
\* that reaches the output inside double quotes (string literals, datetime
\* strings, elements of in-lists, the property name of a context reference) is
\* written with each backslash and double quote backslash-prefixed, so the
\* literals a reader finds in the output are closed and, un-escaped, are
\* exactly the input texts.
C14_NoInjection ==
    (Done /\ result.ok) =>
        LiteralsOf(result.text) =
            [closed |-> TRUE, literals |-> CallerTexts(Innermost(dsl).m.value)]

\* C14, what the code keeps of it: the same for every value that holds no
\* context reference.
C14_NoInjectionOutsideContext ==
    (Done /\ result.ok /\ ~HasContextText(Innermost(dsl).m.value)) =>
        LiteralsOf(result.text) =
            [closed |-> TRUE, literals |-> CallerTexts(Innermost(dsl).m.value)]

\* C14: the property name a" of a context reference reaches the output as it is
C14_Witness ==
    /\ Done /\ allow
    /\ dsl = Group(T_AND, <<Condition(F_category, O_eq, ContextDict(JStr(<<"a", "\"">>)))>>)
    /\ result.ok
    /\ result.text = <<"'", "c", "a", "t", "e", "g", "o", "r", "y", "'", " ", "=", "=", " ",
                       "c", "o", "n", "t", "e", "x", "t", "_", "i", "t", "e", "m", "[", "\"",
                       "a", "\"", "\"", "]">>

\* C14: a string with a quote and a backslash is written escaped
C14_EscapedWitness ==
    /\ Done
    /\ dsl = Group(T_AND, <<Condition(F_category, O_eq, JStr(<<"\"", "\\">>))>>)
    /\ result.ok
    /\ result.text = <<"'", "c", "a", "t", "e", "g", "o", "r", "y", "'", " ", "=", "=", " ",
                       "\"", "\\", "\"", "\\", "\\", "\"">>

-----------------------------------------------------------------------------
(* C15 *)

\* the property a value refers to, in the form {"$context_item": p} with p a
\* text or in the form "$context_item.p"; <<>> stands for no reference
ReferredProperty(val) ==
    IF val.t = "dict" /\ "$context_item" \in DOMAIN val.m /\ val.m["$context_item"].t = "str"
    THEN <<val.m["$context_item"].s>>
    ELSE IF val.t = "str" /\ Len(val.s) >= 14
                          /\ SubSeq(val.s, 1, 14) = <<"$", "c", "o", "n", "t", "e", "x", "t", "_",
                                                     "i", "t", "e", "m", ".">>
    THEN <<SubSeq(val.s, 15, Len(val.s))>>
    ELSE <<>>

\* a condition with its three keys whose value is a context reference
IsReferenceCondition(cond) ==
    /\ {"field", "operator", "value"} \subseteq DOMAIN cond.m
    /\ ReferredProperty(cond.m.value) # <<>>

\* context_item["p"]
AccessorText(p) ==
    <<"c", "o", "n", "t", "e", "x", "t", "_", "i", "t", "e", "m", "[", "\"">> \o p \o <<"\"", "]">>

\* 'field' <operator> context_item["p"]
ComparisonText(cond) ==
    <<"'">> \o cond.m.field.s \o <<"'", " ">> \o cond.m.operator.s \o <<" ">>
    \o AccessorText(ReferredProperty(cond.m.value)[1])

\* <operator>('field', context_item["p"])
FunctionText(cond) ==
    cond.m.operator.s \o <<"(", "'">> \o cond.m.field.s \o <<"'", ",", " ">>
    \o AccessorText(ReferredProperty(cond.m.value)[1]) \o <<")">>

\* C15: with allow_context_item=true, a condition whose value is a context
\* reference to property p, in either form, compiles to
\* 'field' <operator> context_item["p"]; the condition is still subject to the
\* unknown-field check and the operator allowlist of the field's type.
C15_ContextCompiles ==
    (Done /\ allow /\ IsReferenceCondition(Innermost(dsl))) =>
        IF ~InSchema(schema, Innermost(dsl).m.field)
        THEN ~result.ok /\ result.err = "UnknownProperty"
        ELSE IF ~OperatorInTable(schema, Innermost(dsl))
        THEN ~result.ok /\ result.err = "OperatorNotAllowed"
        ELSE result.ok /\ result.text = Nested(ComparisonText(Innermost(dsl)), NestingDepth(dsl))

\* C15, as the code has it: after the unknown-field check and the operator
\* allowlist, the comparison operators give 'field' <operator> context_item["p"],
\* contains and startsWith give <operator>('field', context_item["p"]), and in
\* and not in refuse the reference because it is not a list.
C15_ContextByOperator ==
    (Done /\ allow /\ IsReferenceCondition(Innermost(dsl))) =>
        IF ~InSchema(schema, Innermost(dsl).m.field)
        THEN ~result.ok /\ result.err = "UnknownProperty"
        ELSE IF ~OperatorInTable(schema, Innermost(dsl))
        THEN ~result.ok /\ result.err = "OperatorNotAllowed"
        ELSE IF Innermost(dsl).m.operator.s \in {<<"i", "n">>, <<"n", "o", "t", " ", "i", "n">>}
        THEN ~result.ok /\ result.err = "RequiresList"
        ELSE IF Innermost(dsl).m.operator.s
                   \in {<<"c", "o", "n", "t", "a", "i", "n", "s">>,
                        <<"s", "t", "a", "r", "t", "s", "W", "i", "t", "h">>}
        THEN result.ok /\ result.text = Nested(FunctionText(Innermost(dsl)), NestingDepth(dsl))
        ELSE result.ok /\ result.text = Nested(ComparisonText(Innermost(dsl)), NestingDepth(dsl))

\* C15: a comparison with a reference in the string form compiles to the accessor
C15_Witness ==
    /\ Done /\ allow /\ schema = FullSchema
    /\ dsl = Group(T_AND, <<Condition(F_price, O_ge, ContextString(F_brand))>>)
    /\ IsReferenceCondition(Innermost(dsl))
    /\ result.ok
    /\ result.text = <<"'", "p", "r", "i", "c", "e", "'", " ", ">", "=", " ", "c", "o", "n", "t",
                       "e", "x", "t", "_", "i", "t", "e", "m", "[", "\"", "b", "r", "a", "n", "d",
                       "\"", "]">>

\* C15: contains with a reference compiles to the function call
C15_FunctionWitness ==
    /\ Done /\ allow /\ schema = FullSchema
    /\ dsl = Group(T_AND, <<Condition(F_category, T_contains, ContextDict(JStr(F_brand)))>>)
    /\ result.ok
    /\ result.text = FunctionText(Innermost(dsl))

-----------------------------------------------------------------------------
(* C16 *)

ExtractDone == pc = "done" /\ call = "extract_fields"

IsGroupNode(node) == node.t = "dict" /\ ("rules" \in DOMAIN node.m \/ "op" \in DOMAIN node.m)

\* a group with op and a list of rules, or a condition that names its field by
\* a non-empty text and whose dtype, if it has one, is a non-empty text
IsWellFormedNode(node) ==
    /\ node.t = "dict"
    /\ IF IsGroupNode(node)
       THEN {"op", "rules"} \subseteq DOMAIN node.m /\ node.m.rules.t = "list"
       ELSE /\ "field" \in DOMAIN node.m
            /\ node.m.field.t = "str" /\ node.m.field.s # <<>>
            /\ "dtype" \in DOMAIN node.m => (node.m.dtype.t = "str" /\ node.m.dtype.s # <<>>)

IsWellFormedTree(tree) ==
    \A i \in DOMAIN Preorder(tree) : IsWellFormedNode(Preorder(tree)[i])

\* the type a condition resolves to: its dtype override if present, otherwise
\* the schema's type of the field; JNull when there is neither
ResolvedType(sch, cond) ==
    IF "dtype" \in DOMAIN cond.m THEN cond.m.dtype
    ELSE IF cond.m.field.s \in DOMAIN sch THEN JStr(sch[cond.m.field.s])
    ELSE JNull

\* the positions, in left-to-right depth-first order, of the conditions that
\* name the field and resolve to a type
ResolvingAmong(sch, nodes, name) ==
    {i \in DOMAIN nodes : /\ ~IsGroupNode(nodes[i])
                          /\ nodes[i].m.field.s = name
                          /\ ResolvedType(sch, nodes[i]) # JNull}

ResolvingPositions(sch, tree, name) == ResolvingAmong(sch, Preorder(tree), name)

\* C16: extract_fields is an insert-if-absent merge in left-to-right,
\* depth-first order: the type of every field of the result is the one resolved
\* for the first condition, across all nesting levels, that names the field and
\* resolves to a type; a later condition never overwrites it.
C16_FirstResolutionWins ==
    (ExtractDone /\ IsWellFormedTree(dsl)) =>
        /\ extracted.ok
        /\ \A k \in DOMAIN extracted.fields :
               /\ ResolvingPositions(schema, dsl, extracted.fields[k].field) # {}
               /\ extracted.fields[k].dtype =
                      ResolvedType(schema,
                          Preorder(dsl)[Least(ResolvingPositions(schema, dsl,
                                                                 extracted.fields[k].field))])

\* C16: price is typed string in a nested group and int by a later sibling of
\* that group; the schema says float
C16_Witness ==
    /\ ExtractDone /\ schema = FullSchema
    /\ dsl = Group(T_AND, <<Group(T_OR, <<L_typed_price>>), X_price_int>>)
    /\ ResolvingPositions(schema, dsl, F_price) = {3, 4}
    /\ extracted = Extracted(<<[field |-> F_price, dtype |-> JStr(D_string)]>>)

-----------------------------------------------------------------------------
(* C17 *)

\* the fields named by a condition that resolves to a type, at any depth
ResolvingFields(sch, tree) ==
    {Preorder(tree)[i].m.field.s :
        i \in {j \in DOMAIN Preorder(tree) :
                  /\ ~IsGroupNode(Preorder(tree)[j])
                  /\ ResolvedType(sch, Preorder(tree)[j]) # JNull}}

ExtractedKeys == {extracted.fields[k].field : k \in DOMAIN extracted.fields}

\* C17: extract_fields walks the entire tree: a field is a key of the result if
\* and only if some condition at some nesting depth names it and resolves to a
\* type, the dtype override if present and otherwise the schema's type; a
\* condition with neither contributes nothing, and invalid operators or values
\* do not change the result.
C17_WalksWholeTree ==
    (ExtractDone /\ IsWellFormedTree(dsl)) =>
        /\ extracted.ok
        /\ ExtractedKeys = ResolvingFields(schema, dsl)

\* C17: an override in a nested group gives unknown, a condition with an
\* operator outside the table gives price by the schema
C17_Witness ==
    /\ ExtractDone /\ schema = FullSchema
    /\ dsl = Group(T_AND, <<Group(T_OR, <<L_typed_unknown>>), X_price_between>>)
    /\ IsWellFormedTree(dsl)
    /\ extracted = Extracted(<<[field |-> F_unknown, dtype |-> JStr(D_string)],
                               [field |-> F_price, dtype |-> JStr(D_float)]>>)

\* C17: a condition on a field without override and without schema entry gives
\* nothing
C17_SkippedWitness ==
    /\ ExtractDone /\ schema = FullSchema
    /\ dsl = Group(T_AND, <<L_unknown, L_books>>)
    /\ extracted = Extracted(<<[field |-> F_category, dtype |-> JStr(D_string)]>>)

-----------------------------------------------------------------------------
(* C18 *)

\* a mapping whose own rules is a list
HasListOfRules(root) ==
    root.t = "dict" /\ "rules" \in DOMAIN root.m /\ root.m.rules.t = "list"

\* C18: extract_fields never raises except on a structurally invalid root: for
\* every mapping-shaped root whose own rules is a list, whatever malformed
\* entries occur below it (elements that are no mappings, conditions without a
\* field name, nested groups whose rules is not a list), it returns a mapping.
C18_NeverRaisesBelowRoot ==
    (ExtractDone /\ HasListOfRules(dsl)) => extracted.ok

\* a group below the root, at any depth, has an op and rules that are not a list
HasNestedRulesNotList(tree) ==
    \E i \in DOMAIN Preorder(tree) :
        /\ i > 1
        /\ Preorder(tree)[i].t = "dict"
        /\ {"op", "rules"} \subseteq DOMAIN Preorder(tree)[i].m
        /\ Preorder(tree)[i].m.rules.t # "list"

\* C18, what the code keeps of it: below such a root the only error is the one
\* of a nested group whose rules is not a list.
C18_RaisesOnlyForNestedRules ==
    (ExtractDone /\ HasListOfRules(dsl) /\ ~extracted.ok) =>
        extracted.err = "RulesNotList" /\ HasNestedRulesNotList(dsl)

\* C18: a nested group whose rules is a text, after a condition
C18_Witness ==
    /\ ExtractDone /\ schema = FullSchema
    /\ dsl = Group(T_AND, <<L_books, M_rules_str>>)
    /\ HasListOfRules(dsl)
    /\ ~extracted.ok /\ extracted.err = "RulesNotList"

\* C18: elements that are no mappings and conditions without a field are skipped
C18_SkippedWitness ==
    /\ ExtractDone /\ schema = FullSchema
    /\ dsl = Group(T_AND, <<JStr(T_Books), Group(T_OR, <<M_no_field>>)>>)
    /\ extracted = Extracted(<<>>)

-----------------------------------------------------------------------------
(* C19 *)

ValidateDone == pc = "done" /\ call = "validate_extracted_fields"

\* the classes of type names of the specification
TypeClasses ==
    { {<<"s", "t", "r", "i", "n", "g">>, <<"t", "e", "x", "t">>,
       <<"v", "a", "r", "c", "h", "a", "r">>, <<"c", "h", "a", "r">>},
      {<<"i", "n", "t">>, <<"i", "n", "t", "e", "g", "e", "r">>,
       <<"b", "i", "g", "i", "n", "t">>, <<"s", "m", "a", "l", "l", "i", "n", "t">>},
      {<<"f", "l", "o", "a", "t">>, <<"d", "o", "u", "b", "l", "e">>,
       <<"d", "e", "c", "i", "m", "a", "l">>, <<"n", "u", "m", "e", "r", "i", "c">>},
      {<<"b", "o", "o", "l", "e", "a", "n">>, <<"b", "o", "o", "l">>},
      {<<"d", "a", "t", "e", "t", "i", "m", "e">>, <<"t", "i", "m", "e", "s", "t", "a", "m", "p">>,
       <<"d", "a", "t", "e">>} }

\* equal names, or names of one class
SameClass(a, b) == a = b \/ \E class \in TypeClasses : a \in class /\ b \in class

\* the fields of the mapping that the schema does not have
MissingNames(sch, m) == {m[i].field : i \in {j \in DOMAIN m : m[j].field \notin DOMAIN sch}}

\* the texts of a set in ascending order
InOrder(S) ==
    CHOOSE seq \in [1..Cardinality(S) -> S] :
        \A i, j \in 1..Cardinality(S) : i < j => TextLess(seq[i], seq[j])

\* the positions of the fields the schema has with a type that is not
\* compatible with the schema's, under the given notion of compatible
MismatchPositions(sch, m, Compatible(_, _)) ==
    {i \in DOMAIN m : /\ m[i].field \in DOMAIN sch
                      /\ ~Compatible(m[i].dtype.s, sch[m[i].field])}

\* texts separated by ", "
RECURSIVE Listed(_)
Listed(texts) ==
    IF texts = <<>> THEN <<>>
    ELSE Head(texts) \o (IF Len(texts) = 1 THEN <<>> ELSE <<",", " ">>) \o Listed(Tail(texts))

\* field (filter:X vs schema:Y) for the mismatches at the positions from i on
RECURSIVE MismatchTexts(_, _, _, _)
MismatchTexts(sch, m, positions, i) ==
    IF i > Len(m) THEN <<>>
    ELSE (IF i \in positions
          THEN <<m[i].field \o <<" ", "(", "f", "i", "l", "t", "e", "r", ":">> \o m[i].dtype.s
                 \o <<" ", "v", "s", " ", "s", "c", "h", "e", "m", "a", ":">> \o sch[m[i].field]
                 \o <<")">>>>
          ELSE <<>>)
         \o MismatchTexts(sch, m, positions, i + 1)

\* the message of the one error: the missing fields, then the mismatches
ExpectedMessage(missing, mismatches) ==
    (IF missing = <<>> THEN <<>>
     ELSE <<"M", "i", "s", "s", "i", "n", "g", " ", "f", "i", "e", "l", "d", "s", " ", "i", "n",
            " ", "s", "c", "h", "e", "m", "a", ":", " ">> \o Listed(missing))
    \o (IF missing # <<>> /\ mismatches # <<>> THEN <<";", " ">> ELSE <<>>)
    \o (IF mismatches = <<>> THEN <<>>
        ELSE <<"T", "y", "p", "e", " ", "m", "i", "s", "m", "a", "t", "c", "h", "e", "s", ":", " ">>
             \o Listed(mismatches))

\* the call raises exactly when a field is missing or mismatched, once, with
\* the message that lists all of them
AggregatesFaults(sch, m, Compatible(_, _)) ==
    IF MissingNames(sch, m) = {} /\ MismatchPositions(sch, m, Compatible) = {}
    THEN validated.ok
    ELSE /\ ~validated.ok /\ validated.err = "SchemaMismatch"
         /\ validated.text =
                ExpectedMessage(InOrder(MissingNames(sch, m)),
                                MismatchTexts(sch, m, MismatchPositions(sch, m, Compatible), 1))

\* C19: validate_extracted_fields raises if and only if at least one extracted
\* field is absent from the schema or has a type incompatible with the schema's
\* type; it checks every pair before raising and raises one error whose message
\* lists every missing field in sorted order after 'Missing fields in schema: '
\* and every mismatch as 'field (filter:X vs schema:Y)' after
\* 'Type mismatches: '; it never raises for an empty mapping.
C19_AggregatesMismatches ==
    ValidateDone =>
        /\ AggregatesFaults(schema, fields, SameClass)
        /\ fields = <<>> => validated.ok

\* C19, what the code keeps of it: the same with compatible read as
\* _types_compatible returns it.
C19_AggregatesAsCompared ==
    ValidateDone =>
        /\ AggregatesFaults(schema, fields, TypesCompatible)
        /\ fields = <<>> => validated.ok

\* C19: text for a string field is reported as a mismatch, after two missing
\* fields in sorted order
C19_Witness ==
    /\ ValidateDone /\ schema = FullSchema
    /\ fields = <<[field |-> F_unknown, dtype |-> JStr(D_string)],
                  [field |-> F_category, dtype |-> JStr(D_text)],
                  [field |-> F_brand, dtype |-> JStr(D_int)]>>
    /\ SameClass(D_text, schema[F_category])
    /\ ~validated.ok /\ validated.err = "SchemaMismatch"
    /\ validated.text =
           T_missing_fields \o F_brand \o <<",", " ">> \o F_unknown \o <<";", " ">>
           \o T_type_mismatches \o F_category \o T_filter \o D_text \o T_vs_schema \o D_string
           \o <<")">>

-----------------------------------------------------------------------------
(* C20 *)

TypesDone == pc = "done" /\ call = "_types_compatible"

\* the two arguments of the call
FilterType == fields[1].dtype.s
DbType == schema[fields[1].field]

\* C20: type compatibility is an equivalence relation on type names with the
\* classes {string, text, varchar, char}, {int, integer, bigint, smallint},
\* {float, double, decimal, numeric}, {boolean, bool} and
\* {datetime, timestamp, date}: two names are compatible exactly when they are
\* equal or belong to the same class, whichever is the filter type and
\* whichever the schema type.
C20_CompatibilityIsEquivalence ==
    TypesDone => result.b = SameClass(FilterType, DbType)

\* the five names that are keys of the compatibility matrix
CanonicalNames ==
    { <<"s", "t", "r", "i", "n", "g">>, <<"i", "n", "t">>, <<"f", "l", "o", "a", "t">>,
      <<"b", "o", "o", "l", "e", "a", "n">>, <<"d", "a", "t", "e", "t", "i", "m", "e">> }

\* C20, as the code has it: two names are compatible exactly when they are
\* equal, or the filter type is one of string, int, float, boolean, datetime and
\* the schema type belongs to its class; names of different classes are never
\* compatible.
C20_CompatibleFromCanonical ==
    TypesDone =>
        result.b = (\/ FilterType = DbType
                    \/ FilterType \in CanonicalNames /\ SameClass(FilterType, DbType))

\* C20: text as the filter type is not compatible with string as the schema type
C20_Witness ==
    /\ TypesDone
    /\ FilterType = <<"t", "e", "x", "t">> /\ DbType = <<"s", "t", "r", "i", "n", "g">>
    /\ SameClass(FilterType, DbType)
    /\ result = JBool(FALSE)

\* C20: string as the filter type is compatible with text as the schema type
C20_CanonicalWitness ==
    /\ TypesDone
    /\ FilterType = <<"s", "t", "r", "i", "n", "g">> /\ DbType = <<"t", "e", "x", "t">>
    /\ result = JBool(TRUE)

-----------------------------------------------------------------------------
(* C23 *)

\* the first step of the validation sequence that a condition violates:
\* 1 field resolution, 2 operator allowlist, 3 value shape, 4 context
\* permission; 0 when it violates none
EarliestViolatedStep(sch, cond, allow_context_item) ==
    IF ~InSchema(sch, cond.m.field) THEN 1
    ELSE IF ~OperatorInTable(sch, cond) THEN 2
    ELSE IF ShapeMismatch(cond) THEN 3
    ELSE IF IsContextCondition(cond) /\ ~allow_context_item THEN 4
    ELSE 0

\* the error of a step
IsErrorOfStep(step, cond, err) ==
    CASE step = 1 -> err = "UnknownProperty"
      [] step = 2 -> err = "OperatorNotAllowed"
      [] step = 3 -> ShapeErrorIs(cond, err)
      [] step = 4 -> err = "ContextNotAllowed"

\* C23: within one condition the checks run in the order (1) field resolution,
\* (2) operator allowlist, (3) value shape, (4) context-reference permission:
\* when a condition violates several of them, the error reported is that of the
\* earliest violated step.
C23_CheckOrder ==
    (Done /\ EarliestViolatedStep(schema, Innermost(dsl), allow) # 0) =>
        /\ ~result.ok
        /\ IsErrorOfStep(EarliestViolatedStep(schema, Innermost(dsl), allow),
                         Innermost(dsl), result.err)

\* C23, as the code has it: the context permission is checked first, then the
\* field, the operator and the shape, in that order.
C23_ContextCheckedFirst ==
    (Done /\ EarliestViolatedStep(schema, Innermost(dsl), allow) # 0) =>
        /\ ~result.ok
        /\ IF IsContextCondition(Innermost(dsl)) /\ ~allow
           THEN result.err = "ContextNotAllowed"
           ELSE IsErrorOfStep(EarliestViolatedStep(schema, Innermost(dsl), allow),
                              Innermost(dsl), result.err)

\* C23: an unknown field with a context reference, without permission
C23_Witness ==
    /\ Done /\ ~allow /\ schema = FullSchema
    /\ dsl = Group(T_AND, <<Condition(F_unknown, O_eq, ContextString(F_brand))>>)
    /\ EarliestViolatedStep(schema, Innermost(dsl), allow) = 1
    /\ ~result.ok /\ result.err = "ContextNotAllowed"

-----------------------------------------------------------------------------
(* C24 *)

\* optional sign and digits, spaces around them aside
IsIntegerLooking(s) ==
    /\ DropSign(Strip(s)) # <<>>
    /\ \A i \in DOMAIN DropSign(Strip(s)) : IsDigit(DropSign(Strip(s))[i])

\* optional sign, digits on one side at least of a single point, spaces aside
IsFloatLooking(s) ==
    /\ Cardinality({i \in DOMAIN s : s[i] = "."}) = 1
    /\ Len(DropSign(Strip(s))) >= 2
    /\ \A i \in DOMAIN DropSign(Strip(s)) :
           IsDigit(DropSign(Strip(s))[i]) \/ DropSign(Strip(s))[i] = "."

\* what a number or a numeric-looking string renders as: the number as it is
\* written, the integer of an integer-looking string, the float-looking string
\* itself; <<>> for every other value
NumericRendering(v) ==
    IF v.t = "int" THEN <<IntToText(v.n)>>
    ELSE IF v.t = "float" THEN <<NatToText(v.whole) \o <<".">> \o NatToText(v.tenths)>>
    ELSE IF v.t = "str" /\ IsIntegerLooking(v.s) THEN <<IntToText(PyIntValue(v.s))>>
    ELSE IF v.t = "str" /\ IsFloatLooking(v.s) THEN <<v.s>>
    ELSE <<>>

\* a comparison of an int or float field with a scalar that is no context
\* reference
IsNumericComparison(sch, cond) ==
    /\ InSchema(sch, cond.m.field)
    /\ sch[cond.m.field.s] \in {<<"i", "n", "t">>, <<"f", "l", "o", "a", "t">>}
    /\ cond.m.operator.s \in {O_eq, O_ne, O_lt, O_le, O_gt, O_ge}
    /\ cond.m.value.t # "list"
    /\ ~IsContextCondition(cond)

\* 'field' <operator> <text>
ComparisonWith(cond, text) ==
    <<"'">> \o cond.m.field.s \o <<"'", " ">> \o cond.m.operator.s \o <<" ">> \o text

\* C24: for an int or float field a scalar value is accepted only if it is a
\* native number or a numeric-looking string; every other value (a boolean, a
\* null, a non-numeric string, a mapping) fails with the invalid-value error.
\* An integer-looking string renders as the integer and a float-looking string
\* keeps its decimal form.
C24_NumericValues ==
    (Done /\ IsNumericComparison(schema, Innermost(dsl))) =>
        IF NumericRendering(Innermost(dsl).m.value) = <<>>
        THEN ~result.ok /\ result.err = "InvalidNumber"
        ELSE /\ result.ok
             /\ result.text =
                    Nested(ComparisonWith(Innermost(dsl),
                                          NumericRendering(Innermost(dsl).m.value)[1]),
                           NestingDepth(dsl))

\* C24, as the code has it: a null is also accepted and renders as null, a
\* boolean is also accepted and renders as True or False.
C24_NumericValuesNullAndBoolean ==
    (Done /\ IsNumericComparison(schema, Innermost(dsl))) =>
        IF Innermost(dsl).m.value.t = "null"
        THEN result.ok /\ result.text = Nested(ComparisonWith(Innermost(dsl), T_null),
                                               NestingDepth(dsl))
        ELSE IF Innermost(dsl).m.value.t = "bool"
        THEN result.ok
             /\ result.text = Nested(ComparisonWith(Innermost(dsl),
                                         IF Innermost(dsl).m.value.b THEN T_True ELSE T_False),
                                     NestingDepth(dsl))
        ELSE IF NumericRendering(Innermost(dsl).m.value) = <<>>
        THEN ~result.ok /\ result.err = "InvalidNumber"
        ELSE /\ result.ok
             /\ result.text =
                    Nested(ComparisonWith(Innermost(dsl),
                                          NumericRendering(Innermost(dsl).m.value)[1]),
                           NestingDepth(dsl))

\* C24: a boolean compared with a float field is emitted as True
C24_Witness ==
    /\ Done /\ schema = FullSchema
    /\ dsl = Group(T_AND, <<Condition(F_price, O_eq, JBool(TRUE))>>)
    /\ IsNumericComparison(schema, Innermost(dsl))
    /\ result.ok
    /\ result.text = <<"'", "p", "r", "i", "c", "e", "'", " ", "=", "=", " ", "T", "r", "u", "e">>

\* C24: an integer-looking string with a space renders as the integer
C24_IntegerWitness ==
    /\ Done /\ schema = FullSchema
    /\ dsl = Group(T_AND, <<Condition(F_itemId, O_le, JStr(<<" ", "1", "2">>))>>)
    /\ result.ok
    /\ result.text = <<"'", "i", "t", "e", "m", "I", "d", "'", " ", "<", "=", " ", "1", "2">>

-----------------------------------------------------------------------------
(* C25 *)

\* a comparison of a datetime field with a scalar that is no context reference
IsDatetimeComparison(sch, cond) ==
    /\ InSchema(sch, cond.m.field)
    /\ sch[cond.m.field.s] = <<"d", "a", "t", "e", "t", "i", "m", "e">>
    /\ cond.m.operator.s \in {O_eq, O_ne, O_lt, O_le, O_gt, O_ge}
    /\ cond.m.value.t # "list"
    /\ ~IsContextCondition(cond)

\* now() in any letter case
IsNowToken(v) == v.t = "str" /\ Lower(v.s) = <<"n", "o", "w", "(", ")">>

\* C25: for a datetime field the value now() in any letter case is emitted as
\* the bare token now(), and any other value is treated as an opaque string and
\* emitted quoted and escaped exactly as a string-typed value would be;
\* formatting a datetime value never fails.
C25_DatetimeValues ==
    (Done /\ IsDatetimeComparison(schema, Innermost(dsl))) =>
        /\ result.ok
        /\ result.text =
               Nested(ComparisonWith(Innermost(dsl),
                          IF IsNowToken(Innermost(dsl).m.value)
                          THEN <<"n", "o", "w", "(", ")">>
                          ELSE FormatValue(Innermost(dsl).m.value, D_string).text),
                      NestingDepth(dsl))

\* now() in any letter case, spaces around it aside
IsNowTokenSpaced(v) == v.t = "str" /\ Lower(Strip(v.s)) = <<"n", "o", "w", "(", ")">>

\* C25, as the code has it: now() also with spaces around it is the bare token,
\* every other string and the null are emitted as for a string field, and a
\* value that is no string (a number, a boolean, a mapping) is refused.
C25_DatetimeStringsOnly ==
    (Done /\ IsDatetimeComparison(schema, Innermost(dsl))) =>
        IF Innermost(dsl).m.value.t \notin {"str", "null"}
        THEN ~result.ok /\ result.err = "InvalidDatetime"
        ELSE /\ result.ok
             /\ result.text =
                    Nested(ComparisonWith(Innermost(dsl),
                               IF IsNowTokenSpaced(Innermost(dsl).m.value)
                               THEN <<"n", "o", "w", "(", ")">>
                               ELSE FormatValue(Innermost(dsl).m.value, D_string).text),
                           NestingDepth(dsl))

\* C25: a number compared with a datetime field is refused
C25_Witness ==
    /\ Done /\ schema = FullSchema
    /\ dsl = Group(T_AND, <<Condition(F_published_at, O_ge, JInt(42))>>)
    /\ IsDatetimeComparison(schema, Innermost(dsl))
    /\ ~result.ok /\ result.err = "InvalidDatetime"

\* C25: a string with a quote and a backslash is emitted quoted and escaped
C25_QuotedWitness ==
    /\ Done /\ schema = FullSchema
    /\ dsl = Group(T_AND, <<Condition(F_published_at, O_lt, JStr(<<"a", "\"", "b", "\\">>))>>)
    /\ result.ok
    /\ result.text = <<"'", "p", "u", "b", "l", "i", "s", "h", "e", "d", "_", "a", "t", "'", " ",
                       "<", " ", "\"", "a", "\\", "\"", "b", "\\", "\\", "\"">>

-----------------------------------------------------------------------------
(* C28 *)

\* text holds part at position i
HoldsAt(text, part, i) == i + Len(part) - 1 <= Len(text) /\ SubSeq(text, i, i + Len(part) - 1) = part

\* the text holds the opening of an accessor, context_item[
HasAccessor(text) ==
    \E i \in DOMAIN text :
        HoldsAt(text, <<"c", "o", "n", "t", "e", "x", "t", "_", "i", "t", "e", "m", "[">>, i)

\* the value of the condition is a list with a context reference among its
\* elements
HasReferenceInList(cond) ==
    /\ cond.m.value.t = "list"
    /\ \E i \in DOMAIN cond.m.value.items : ReferredProperty(cond.m.value.items[i]) # <<>>

\* C28: when allow_context_item=false, no string returned by compile contains
\* a context_item[...] accessor, wherever the context reference is placed: as a
\* condition's scalar value, as an element of the list of an in or not in
\* condition, or as the value of contains or startsWith, at any nesting depth.
C28_NoAccessorWithoutPermission ==
    (Done /\ ~allow /\ result.ok) => ~HasAccessor(result.text)

\* C28, what the code keeps of it: without permission an accessor is returned
\* only for a reference that is an element of a list.
C28_AccessorOnlyFromList ==
    (Done /\ ~allow /\ result.ok /\ HasAccessor(result.text)) =>
        HasReferenceInList(Innermost(dsl))

\* C28: a reference as the element of the list of in, in a nested group
C28_Witness ==
    /\ Done /\ ~allow /\ schema = FullSchema
    /\ dsl = Group(T_AND, <<Group(T_OR, <<Condition(F_category, T_in,
                                              JList(<<ContextDict(JStr(F_brand))>>))>>)>>)
    /\ HasReferenceInList(Innermost(dsl))
    /\ result.ok
    /\ result.text = <<"(", "'", "c", "a", "t", "e", "g", "o", "r", "y", "'", " ", "i", "n", " ",
                       "{", "c", "o", "n", "t", "e", "x", "t", "_", "i", "t", "e", "m", "[", "\"",
                       "b", "r", "a", "n", "d", "\"", "]", "}", ")">>

-----------------------------------------------------------------------------
(* C29 *)

\* compile takes a node with rules for a group, extract_fields a node with op
CompileSeesGroup(node) == node.t = "dict" /\ "rules" \in DOMAIN node.m
ExtractSeesGroup(node) == node.t = "dict" /\ "op" \in DOMAIN node.m

\* the two classify every node of the tree alike
SameClassification(tree) ==
    \A i \in DOMAIN Preorder(tree) :
        CompileSeesGroup(Preorder(tree)[i]) <=> ExtractSeesGroup(Preorder(tree)[i])

\* the field names of the conditions compile emitted
CompiledFields(tree) ==
    {Preorder(tree)[i].m.field.s :
        i \in {j \in DOMAIN Preorder(tree) : ~CompileSeesGroup(Preorder(tree)[j])}}

\* no condition of the tree carries a dtype override
HasNoOverride(tree) ==
    \A i \in DOMAIN Preorder(tree) : "dtype" \notin DOMAIN Preorder(tree)[i].m

\* C29: the pre-flight path agrees with the compiler: for every tree that
\* compile accepts, extract_fields classifies each node as group or condition
\* exactly as compile does and returns exactly the field names of the conditions
\* that compile emitted, and validate_extracted_fields on that result does not
\* raise when no condition carries a dtype override.
C29_PreflightAgrees ==
    /\ (ExtractDone /\ result.ok) =>
           /\ SameClassification(dsl)
           /\ extracted.ok
           /\ ExtractedKeys = CompiledFields(dsl)
    /\ (ValidateDone /\ result.ok /\ HasNoOverride(dsl)) => validated.ok

\* the dtype of a node is there and is null, false, zero or empty
HasFalsyDtype(node) == "dtype" \in DOMAIN node.m /\ Falsy(node.m.dtype) /\ node.m.dtype # JNull

\* C29, what the code keeps of it: the fields agree for the accepted trees in
\* which the two classify alike and no dtype is empty, and validation of a tree
\* without overrides does not raise.
C29_AgreesWhenClassifiedAlike ==
    /\ (/\ ExtractDone /\ result.ok /\ SameClassification(dsl)
        /\ \A i \in DOMAIN Preorder(dsl) : ~HasFalsyDtype(Preorder(dsl)[i]))
           => extracted.ok /\ ExtractedKeys = CompiledFields(dsl)
    /\ (ValidateDone /\ result.ok /\ HasNoOverride(dsl)) => validated.ok

\* C29: a condition that also has an op key is compiled and not extracted
C29_Witness ==
    /\ ExtractDone /\ schema = FullSchema
    /\ dsl = Group(T_AND, <<X_price_le, Group(T_OR, <<X_op_books>>)>>)
    /\ result.ok
    /\ CompiledFields(dsl) = {F_price, F_category}
    /\ extracted = Extracted(<<[field |-> F_price, dtype |-> JStr(D_float)]>>)

\* C29: a tree without overrides passes the three calls
C29_ValidatedWitness ==
    /\ ValidateDone /\ schema = FullSchema
    /\ dsl = Group(T_AND, <<X_price_le, Group(T_OR, <<L_books>>)>>)
    /\ result.ok /\ validated.ok
    /\ fields = <<[field |-> F_price, dtype |-> JStr(D_float)],
                  [field |-> F_category, dtype |-> JStr(D_string)]>>

-----------------------------------------------------------------------------
(* C21 *)

QueryDone == pc = "done" /\ call = "query_users"

RECURSIVE CountChar(_, _)
CountChar(s, c) ==
    IF s = <<>> THEN 0 ELSE (IF Head(s) = c THEN 1 ELSE 0) + CountChar(Tail(s), c)

\* the text after WHERE
WhereClause(statement) ==
    SubSeq(statement, Len(<<"S", "E", "L", "E", "C", "T", " ", "*", " ", "F", "R", "O", "M", " ">>)
                          + Len(T_users) + Len(<<" ", "W", "H", "E", "R", "E", " ">>) + 1,
           Len(statement))

IsBetween(condition) ==
    /\ condition.t = "dict" /\ OperatorOf(condition).t = "str"
    /\ Lower(OperatorOf(condition).s) = <<"b", "e", "t", "w", "e", "e", "n">>
    /\ ConditionGet(condition, "value2") # JNull

IsInList(condition) ==
    /\ condition.t = "dict" /\ OperatorOf(condition).t = "str"
    /\ Lower(OperatorOf(condition).s) = <<"i", "n">>
    /\ ConditionGet(condition, "value").t = "list"

\* the parameters a condition binds, in the order of its placeholders: the two
\* bounds of a between, the elements of the list of an in, the value otherwise
BoundParameters(condition) ==
    IF IsBetween(condition)
    THEN <<ConvertValueByDtype(ConditionGet(condition, "value"), ConditionGet(condition, "dtype")).av,
           ConvertValueByDtype(ConditionGet(condition, "value2"), ConditionGet(condition, "dtype")).av>>
    ELSE IF IsInList(condition)
    THEN [i \in DOMAIN ConditionGet(condition, "value").items |->
              ConvertToDynamodbType(ConditionGet(condition, "value").items[i])]
    ELSE <<ConvertValueByDtype(ConditionGet(condition, "value"), ConditionGet(condition, "dtype")).av>>

\* an in condition has one placeholder for each element of its list
InPlaceholders(i) ==
    IsInList(conditions[i].condition) =>
        CountChar(executed.where_parts[i].text, "?")
            = CountChar(conditions[i].field, "?") + Len(ConditionGet(conditions[i].condition, "value").items)

\* C21: the statement and the parameter list of query_users stay aligned: the
\* WHERE clause has as many ? as the list has parameters, the i-th parameter is
\* the value bound to the i-th placeholder in text order, and an in condition
\* with a list has one placeholder for each element, the elements in input order.
C21_Aligned ==
    (QueryDone /\ executed.ok) =>
        /\ CountChar(WhereClause(executed.Statement), "?") = Len(executed.Parameters)
        /\ executed.Parameters
               = Flatten([i \in DOMAIN conditions |-> BoundParameters(conditions[i].condition)])
        /\ \A i \in DOMAIN conditions : InPlaceholders(i)

\* the upper bound of a between is bound as the code has it, to the lower bound
BoundParametersBetweenTwice(condition) ==
    IF IsBetween(condition)
    THEN <<ConvertValueByDtype(ConditionGet(condition, "value"), ConditionGet(condition, "dtype")).av,
           ConvertValueByDtype(ConditionGet(condition, "value"), ConditionGet(condition, "dtype")).av>>
    ELSE BoundParameters(condition)

\* C21, what the code keeps of it: the counts agree when no field name holds a
\* ?, the parameters follow the conditions in order with the lower bound of a
\* between bound twice, and an in condition has one placeholder for each element.
C21_AlignedButBetween ==
    (QueryDone /\ executed.ok) =>
        /\ (\A i \in DOMAIN conditions : ~Contains(conditions[i].field, "?"))
               => CountChar(WhereClause(executed.Statement), "?") = Len(executed.Parameters)
        /\ executed.Parameters
               = Flatten([i \in DOMAIN conditions |-> BoundParametersBetweenTwice(conditions[i].condition)])
        /\ \A i \in DOMAIN conditions : InPlaceholders(i)

\* C21: the upper bound 9 of a between is never bound
C21_Witness ==
    /\ QueryDone /\ executed.ok
    /\ conditions = <<[field |-> F_age, condition |-> UserBetween(JInt(3), JInt(9), D_int)],
                      [field |-> T_tenant_id,
                       condition |-> UserCondition(<<"=">>, JStr(T_t1), D_string)]>>
    /\ CountChar(WhereClause(executed.Statement), "?") = 3
    /\ executed.Parameters = <<AttributeValue("N", <<"3">>), AttributeValue("N", <<"3">>),
                               AttributeValue("S", T_t1)>>

\* C21: an in condition over three elements
C21_InWitness ==
    /\ QueryDone /\ executed.ok
    /\ \E i \in DOMAIN conditions :
         /\ IsInList(conditions[i].condition)
         /\ executed.where_parts[i].text
                = F_age \o <<" ", "I", "N", " ", "(", "?", ",", " ", "?", ",", " ", "?", ")">>
         /\ executed.where_parts[i].params
                = <<AttributeValue("N", <<"9">>), AttributeValue("S", T_t1),
                    AttributeValue("BOOL", TRUE)>>

-----------------------------------------------------------------------------
(* C26 *)

\* the statement has the condition tenant_id = ? and the argument is bound to it
HasTenantEquality ==
    \E i \in DOMAIN executed.where_parts :
        /\ executed.where_parts[i].text = T_tenant_id \o <<" ", "=", " ", "?">>
        /\ executed.where_parts[i].params = <<AttributeValue("S", tenant_id)>>

\* C26: query_users always includes tenant_id in the query: the statement
\* passed to execute_partiql has a tenant_id equality condition whose bound
\* parameter is the tenant_id argument, also when the conditions mapping
\* already has a tenant_id entry.
C26_TenantAlwaysBound ==
    (QueryDone /\ executed.ok) => HasTenantEquality

\* C26, as the code has it: a statement is passed only when the caller's
\* conditions have a tenant_id entry, and it is the statement of any other
\* tenant_id argument.
C26_TenantFromConditions ==
    (QueryDone /\ executed.ok) =>
        /\ HasTenantId(conditions)
        /\ \A other \in Tenants : executed = QueryUsers(conditions, other)

\* C26: the call for tenant t1 queries the rows of tenant t2
C26_Witness ==
    /\ QueryDone /\ executed.ok
    /\ tenant_id = T_t1
    /\ conditions = <<[field |-> T_tenant_id,
                       condition |-> UserCondition(<<"=">>, JStr(T_t2), D_string)]>>
    /\ WhereClause(executed.Statement) = T_tenant_id \o <<" ", "=", " ", "?">>
    /\ executed.Parameters = <<AttributeValue("S", T_t2)>>

-----------------------------------------------------------------------------
(* C22 *)

AllDone == \A p \in DOMAIN procs : procs[p].pc = "done"

\* the track_interaction calls for one user of one tenant and month
TrackCallsOf(key) ==
    {p \in DOMAIN procs :
        /\ procs[p].op = "track_interaction"
        /\ <<TenantMonth(procs[p].tenant_id, procs[p].month), procs[p].user_id>> = key}

TrackedKeys ==
    {<<TenantMonth(procs[p].tenant_id, procs[p].month), procs[p].user_id>> :
        p \in {q \in DOMAIN procs : procs[q].op = "track_interaction"}}

FirstTimeCalls(key) == {p \in TrackCallsOf(key) : procs[p].is_first_time}

\* C22: unique end-users are counted once per tenant and month: under any
\* interleaving of concurrent track_interaction calls, mark_user_seen_once
\* returns True in at most one call for a (tenant_id, month, user_id), in exactly
\* one when all calls have completed, and a call invokes increment_unique_users
\* once when it got True and never otherwise.
C22_CountedOnce ==
    /\ call = "track_interaction" =>
          \A key \in TrackedKeys :
              /\ Cardinality(FirstTimeCalls(key)) <= 1
              /\ AllDone => Cardinality(FirstTimeCalls(key)) = 1
              /\ \A p \in TrackCallsOf(key) :
                    /\ procs[p].increments <= 1
                    /\ procs[p].increments = 1 => procs[p].is_first_time
                    /\ (procs[p].pc = "done" /\ procs[p].is_first_time) => procs[p].increments = 1

\* C22: two calls for the same user have completed, and one of them counted
C22_Witness ==
    /\ call = "track_interaction" /\ AllDone
    /\ Len(procs) = 2
    /\ procs[1].op = "track_interaction" /\ procs[2].op = "track_interaction"
    /\ procs[1].tenant_id = procs[2].tenant_id /\ procs[1].user_id = procs[2].user_id
    /\ ~procs[1].is_first_time /\ procs[1].increments = 0
    /\ procs[2].is_first_time /\ procs[2].increments = 1

-----------------------------------------------------------------------------
(* C30 *)

TrackingKeys == {<<t, T_month>> : t \in Tenants}
EventTypes == {T_purchase, T_view}

\* the increments of unique_users the calls have applied to the row of the key
RECURSIVE AppliedUniqueUsers(_, _)
AppliedUniqueUsers(calls, key) ==
    IF calls = <<>> THEN 0
    ELSE (IF <<Head(calls).tenant_id, Head(calls).month>> = key THEN Head(calls).increments ELSE 0)
             + AppliedUniqueUsers(Tail(calls), key)

\* the increments of an event type the calls pass for the row of the key
RECURSIVE PassedIncrements(_, _, _)
PassedIncrements(calls, key, event_type) ==
    IF calls = <<>> THEN 0
    ELSE (IF <<Head(calls).tenant_id, Head(calls).month>> = key
          THEN CounterOf(Head(calls).event_increments, event_type) ELSE 0)
             + PassedIncrements(Tail(calls), key, event_type)

\* what get_interactions reads from the row of the key
RowUniqueUsers(key) ==
    IF HasRow(dynamodb.interaction_tracking, key)
           /\ dynamodb.interaction_tracking[key].has_unique_users
    THEN dynamodb.interaction_tracking[key].unique_users ELSE 0
RowInteractions(key, event_type) ==
    IF HasRow(dynamodb.interaction_tracking, key)
           /\ dynamodb.interaction_tracking[key].has_interactions
    THEN CounterOf(dynamodb.interaction_tracking[key].interactions, event_type) ELSE 0

\* C30: no update to the monthly aggregate row is lost: when the concurrent
\* track_interaction, update_interactions and increment_unique_users calls on a
\* (tenant_id, month) have all completed, the row's unique_users is the total
\* of the increments applied and each interactions counter is the sum of the
\* increments passed for its event type.
C30_NoLostUpdate ==
    (call = "track_interaction" /\ AllDone) =>
        \A key \in TrackingKeys :
            /\ RowUniqueUsers(key) = AppliedUniqueUsers(procs, key)
            /\ \A event_type \in EventTypes :
                  RowInteractions(key, event_type) = PassedIncrements(procs, key, event_type)

\* C30, what the code keeps of it: the row never counts more than the calls
\* have applied and passed.
C30_NeverOvercounted ==
    call = "track_interaction" =>
        \A key \in TrackingKeys :
            /\ RowUniqueUsers(key) <= AppliedUniqueUsers(procs, key)
            /\ \A event_type \in EventTypes :
                  RowInteractions(key, event_type) <= PassedIncrements(procs, key, event_type)

\* C30: update_interactions found no row, increment_unique_users made it, and
\* the put_item of update_interactions replaced it
C30_Witness ==
    /\ call = "track_interaction" /\ AllDone
    /\ Len(procs) = 2
    /\ procs[1].op = "update_interactions" /\ procs[1].updated = "created"
    /\ procs[2].op = "increment_unique_users" /\ procs[2].increments = 1
    /\ procs[1].tenant_id = procs[2].tenant_id
    /\ RowUniqueUsers(<<procs[1].tenant_id, T_month>>) = 0

\* C30: the first track_interaction of a month: the row made by
\* increment_unique_users has no interactions and the update fails
C30_FirstCallWitness ==
    /\ call = "track_interaction" /\ AllDone
    /\ Len(procs) = 1
    /\ procs[1].op = "track_interaction" /\ procs[1].is_first_time
    /\ procs[1].event_increments # NoCounters
    /\ procs[1].updated = "ValidationException"
    /\ RowInteractions(<<procs[1].tenant_id, T_month>>, T_purchase) = 0

-----------------------------------------------------------------------------
(* C27 *)

\* the calls that wrote the record of the key and returned
CreatedCalls(key) ==
    {p \in DOMAIN procs :
        /\ <<procs[p].tenant_id, procs[p].recommendation_id>> = key
        /\ procs[p].returned = "created"}

CallsOf(key) ==
    {p \in DOMAIN procs :
        /\ <<procs[p].tenant_id, procs[p].recommendation_id>> = key
        /\ ~MissingKeyPart(procs[p].tenant_id, procs[p].recommendation_id)}

RecommendationKeys == {<<T_t1, T_r1>>, <<T_t1, T_r2>>}

\* C27: create_recommendation never overwrites an existing record: of the
\* concurrent calls with one (tenant_id, recommendation_id) at most one writes
\* the item and returns, every other call fails with the already-exists error,
\* and the stored item is the one the successful call wrote.
C27_NeverOverwrites ==
    call = "create_recommendation" =>
        \A key \in RecommendationKeys :
            /\ Cardinality(CreatedCalls(key)) <= 1
            /\ AllDone =>
                  /\ \A p \in CallsOf(key) \ CreatedCalls(key) :
                        procs[p].returned = "ValueError: already exists"
                  /\ \A p \in CreatedCalls(key) :
                        dynamodb.recommendations[key] = [name |-> procs[p].name]

\* C27, what the code keeps of it: a call that finds the record at its
\* get_item fails and leaves it, and a record of the table is the one that was
\* there before the calls or the item of a call that returned.
C27_ExistingAtGetKept ==
    call = "create_recommendation" =>
        /\ \A p \in DOMAIN procs :
              procs[p].returned = "ValueError: already exists"
                  => HasRow(dynamodb.recommendations, <<procs[p].tenant_id, procs[p].recommendation_id>>)
        /\ \A key \in DOMAIN dynamodb.recommendations :
              \/ dynamodb.recommendations[key] = [name |-> T_old]
              \/ \E p \in CreatedCalls(key) : dynamodb.recommendations[key] = [name |-> procs[p].name]
        /\ (HasRow(dynamodb.recommendations, <<T_t1, T_r1>>)
                /\ dynamodb.recommendations[<<T_t1, T_r1>>] = [name |-> T_old])
              => CreatedCalls(<<T_t1, T_r1>>) = {}

\* C27: two calls with one key have both returned the entity they were given,
\* and the record of the first is gone
C27_Witness ==
    /\ call = "create_recommendation" /\ AllDone
    /\ Len(procs) = 2
    /\ procs[1].tenant_id = T_t1 /\ procs[2].tenant_id = T_t1
    /\ procs[1].recommendation_id = T_r1 /\ procs[2].recommendation_id = T_r1
    /\ procs[1].name = T_a /\ procs[2].name = T_b
    /\ procs[1].returned = "created" /\ procs[2].returned = "created"
    /\ dynamodb.recommendations[<<T_t1, T_r1>>] = [name |-> T_b]

=============================================================================
